---- MODULE Spec2Model ----
(***************************************************************************)
(* Session / identity registry, viewer groups, bounded dispatch and        *)
(* acknowledgment routing of the SACMES web server (src/app.py), and the    *)
(* file monitor of the local agent (src/agent.py).                         *)
(*                                                                         *)
(* Conventions                                                             *)
(*   - a channel (Socket.IO sid) is a number 1..MaxSid, 0 stands for None  *)
(*   - a session id (uuid4) is a number 1..MaxSid, 0 stands for None       *)
(*   - an optional session value is <<>> (key absent / None) or <<v>>      *)
(*   - `sent` holds the messages emitted by the step that led to the       *)
(*     current state, one record per receiving channel                     *)
(***************************************************************************)
EXTENDS Integers, Sequences, FiniteSets, TLC

\* ---------------------------------------------------------------- bounds
Users == {"u1", "u2"}
MaxAgents == 2          \* agent connections opened
MaxViewers == 2         \* web viewer connections opened
MaxTasks == 2           \* file tasks pending at the same time
MaxFiles == 1           \* distinct files an agent sends
NumElectrodes == 1      \* electrodes a viewer selects
MaxSid == MaxAgents + MaxViewers
MaxAgentFiles == 3      \* files that appear in the agent's watched folder
MaxLog == 4             \* files an agent emits between two set_filters
SelectedElectrodes == 2 \* electrodes selected in the multi-electrode sessions
ConcurrentSlots == 2    \* slots of the gate where tasks run side by side

\* sids are opaque random strings: agents get the numbers 1..MaxAgents and
\* viewers the numbers after them, each in the order of connecting
AgentSids == 1..MaxAgents
ViewerSids == (MaxAgents + 1)..MaxSid

Sids == 1..MaxSid
Sessions == 1..MaxSid
Files == 1..MaxFiles

\* ------------------------------------------------------ program constants
\* capacity of the admission gate, scaled down so that MaxTasks exceeds it
MAX_CONCURRENT_FILE_TASKS == 1
\* load thresholds in percent (0.80, 0.30)
LOAD_THRESHOLD_HIGH == 80
LOAD_THRESHOLD_LOW == 30
\* send intervals in hundredths of a second (0.1, 0.05)
RATE_SLOW == 10
RATE_NORMAL == 5
\* seconds (2.0)
RATE_CHECK_INTERVAL == 2
\* the capacity of the admission gate as the server sets it
FullCapacity == 20
\* agent: limits of file_send_interval in hundredths of a second (0.05, 1.0)
MIN_SEND_INTERVAL == 5
MAX_SEND_INTERVAL == 100
\* agent: file_send_interval at start, in hundredths of a second (0.1)
DEFAULT_SEND_INTERVAL == 10
\* agent: iterations of the acknowledgment wait loop before it gives up
\* (max_wait_time = 60 s in steps of 0.05 s), scaled down
max_wait_time == 2

VARIABLES
    rooms,                  \* socketio.server.manager.rooms['/']: live sids
    conn,                   \* per sid: role, user_id of the query, handler position, flask session
    agent_user_mapping,     \* {user_id: {'session_id', 'agent_sid'}}
    web_user_mapping,       \* {user_id: set(web_viewer_sid)}
    web_user_keys,          \* key order of the web_user_mapping dict
    fallback_data,          \* {session_id: {key: value}} (the session store)
    agent_session_tracker,  \* deprecated global tracker
    agent_rate_tracking,    \* {user_id: {'current_interval', 'last_adjusted'}}
    balance,                \* free slots of file_processing_semaphore
    semaphore_capacity,     \* the value file_processing_semaphore was created with
    tasks,                  \* background file tasks started by start_limited_file_task
    cleanups,               \* pending delayed_agent_cleanup background tasks
    session_cleanups,       \* pending cleanup_session_after_delay background tasks
    sent,                   \* messages emitted by the last step
    finished,               \* the file task that ended in the last step, if any
    flow_check,             \* the check_and_adjust_agent_rate call of the last step, if any
    session_cleaned,        \* the cleanup_session_after_delay that ended in the last step, if any
    since_rate_msg          \* per user_id: seconds since the last adjust_send_rate, saturating

\* the local agent (src/agent.py), one process
VARIABLES
    current_filters,            \* the filters of the last set_filters
    directory,                  \* names os.listdir returns for the watched folder
    processed_files,            \* set of names
    is_monitoring_active,
    agent_thread,               \* position of the monitor thread, "none" when not alive
    scan_queue,                 \* the files of the current scan still to send, in order
    timeout_counter,            \* iterations of the acknowledgment wait loop
    pending_file_ack,           \* 0 stands for None
    file_processing_complete,
    file_send_interval,         \* hundredths of a second
    sio_connected,              \* sio.connected
    set_filters_pc,             \* position of a running on_set_filters handler
    emit_log,                   \* files emitted since the last set_filters, and how each wait ended
    scan_sent,                  \* the analysis_mode of the current scan and the files emitted in it, in order
    stop_received,              \* a stop message arrived since the last set_filters
    handled                     \* the message the agent handled in the last step, if any

server_vars == <<rooms, conn, agent_user_mapping, web_user_mapping,
                 web_user_keys, fallback_data, agent_session_tracker, agent_rate_tracking,
                 balance, semaphore_capacity, tasks, cleanups, session_cleanups, sent,
                 finished, flow_check, session_cleaned, since_rate_msg>>

agent_vars == <<current_filters, directory, processed_files, is_monitoring_active,
                agent_thread, scan_queue, timeout_counter, pending_file_ack,
                file_processing_complete, file_send_interval, sio_connected,
                set_filters_pc, emit_log, scan_sent, stop_received, handled>>

vars == <<server_vars, agent_vars>>

AgentFiles == 1..MaxAgentFiles

\* ------------------------------------------------------------ data shapes
NoMap == [session_id |-> 0, agent_sid |-> 0]
NoConn == [kind |-> "none", user |-> "-", pc |-> "none", sess |-> 0]
NoTrack == [current_interval |-> 0, since_adjust |-> 0]
NoCheck == [user |-> "-", load |-> 0, since_msg |-> 0]
NoCleanup == [session_id |-> 0, cleared |-> FALSE]
NoEvent == [ev |-> "-", filename |-> 0, interval |-> 0]
NoScan == [analysis_mode |-> "-", files |-> <<>>]
EmptyParams == [mode |-> "none", electrodes |-> 0]
NoTask == [kind |-> "-", file |-> 0, electrode |-> 0, total |-> 0, session_id |-> 0,
           user_id |-> "-", from_sid |-> 0, pc |-> "free", outcome |-> "-",
           raised |-> FALSE, resolved |-> 0, acked |-> 0, progress |-> 0,
           live_trend_data |-> {}]

EmptySession ==
    [agent_sid |-> 0,
     web_viewer_sids |-> {},
     live_analysis_params |-> <<>>,
     live_trend_data |-> <<>>,
     live_peak_detection_warnings |-> <<>>,
     frequency_map_data |-> <<>>,
     frequency_map_params |-> <<>>,
     validation_error_sent |-> FALSE,
     file_processing |-> [f \in Files |-> 0]]

Msg(ev, to, user, file) ==
    [ev |-> ev, to |-> to, user |-> user, file |-> file, interval |-> 0, data |-> <<>>]

\* emit('adjust_send_rate', {'interval': new_interval, ...}, to=agent_sid)
RateMsg(to, user, new_interval) ==
    [Msg("adjust_send_rate", to, user, 0) EXCEPT !.interval = new_interval]

\* emit(ev, ..., to=[sids]): one message per receiving channel
EmitAll(ev, tos, user, file) == {Msg(ev, v, user, file) : v \in tos}

\* ---------------------------------------------------------- session store
get_session_data(fd, session_id, key, default) ==
    IF fd[session_id][key] = <<>> THEN default ELSE fd[session_id][key][1]

set_session_data(fd, session_id, key, value) ==
    [fd EXCEPT ![session_id][key] = <<value>>]

get_session_agent_sid(fd, session_id) == fd[session_id].agent_sid

set_session_agent_sid(fd, session_id, agent_sid) ==
    [fd EXCEPT ![session_id].agent_sid = agent_sid]

get_session_web_viewer_sids(fd, session_id) == fd[session_id].web_viewer_sids

add_session_web_viewer_sid(fd, session_id, sid) ==
    [fd EXCEPT ![session_id].web_viewer_sids = @ \cup {sid}]

remove_session_web_viewer_sid(fd, session_id, sid) ==
    [fd EXCEPT ![session_id].web_viewer_sids = @ \ {sid}]

clear_session_data(fd, session_id) == [fd EXCEPT ![session_id] = EmptySession]

\* ------------------------------------------------------ identity registry
\* a registration that keeps the entry an identity already has
register_agent_user_keep(m, user_id, session_id, agent_sid) ==
    IF m[user_id] # [session_id |-> 0, agent_sid |-> 0] THEN m
    ELSE [m EXCEPT ![user_id] = [session_id |-> session_id, agent_sid |-> agent_sid]]

register_agent_user(m, user_id, session_id, agent_sid) ==
    [m EXCEPT ![user_id] = [session_id |-> session_id, agent_sid |-> agent_sid]]

get_agent_session_by_user_id(m, user_id) == m[user_id]

unregister_agent_user(m, user_id) == [m EXCEPT ![user_id] = NoMap]

\* a lookup that takes any channel for the agent of the first identity that
\* has a mapping
get_user_id_of_any_agent(m, agent_sid) ==
    IF \E u \in Users : m[u] # NoMap
    THEN CHOOSE u \in Users : m[u] # NoMap
    ELSE "-"

\* reverse lookups: "-" stands for None
get_user_id_by_agent_sid(m, agent_sid) ==
    IF \E u \in Users : m[u] # NoMap /\ m[u].agent_sid = agent_sid
    THEN CHOOSE u \in Users : m[u] # NoMap /\ m[u].agent_sid = agent_sid
    ELSE "-"

get_user_id_by_session_id(m, session_id) ==
    IF \E u \in Users : m[u] # NoMap /\ m[u].session_id = session_id
    THEN CHOOSE u \in Users : m[u] # NoMap /\ m[u].session_id = session_id
    ELSE "-"

get_current_agent_sid(m, fd, user_id, session_id) ==
    IF user_id # "-" /\ m[user_id] # NoMap /\ m[user_id].agent_sid # 0
    THEN m[user_id].agent_sid
    ELSE IF session_id # 0 THEN get_session_agent_sid(fd, session_id) ELSE 0

\* ---------------------------------------------------------- viewer groups
\* a lookup that finds no viewer
get_web_viewers_of_nobody(w, user_id) == {}

\* a lookup that returns the viewers of every identity
get_web_viewers_of_anyone(w, user_id) == UNION {w[u] : u \in Users}

get_web_viewers_by_user_id(w, user_id) == w[user_id]

register_web_viewer_user(w, user_id, sid) == [w EXCEPT ![user_id] = @ \cup {sid}]

unregister_web_viewer_user(w, user_id, sid) == [w EXCEPT ![user_id] = @ \ {sid}]

\* first key, in dict order, whose viewer set holds the sid
get_user_id_by_web_viewer_sid(w, keys, sid) ==
    IF \E i \in 1..Len(keys) : sid \in w[keys[i]]
    THEN keys[CHOOSE i \in 1..Len(keys) :
                /\ sid \in w[keys[i]]
                /\ \A j \in 1..(i - 1) : sid \notin w[keys[j]]]
    ELSE "-"

\* the dict keys after register / unregister
KeysAfterRegister(keys, user_id) ==
    IF \E i \in 1..Len(keys) : keys[i] = user_id THEN keys ELSE Append(keys, user_id)

KeysAfterUnregister(w, keys, user_id) ==
    IF w[user_id] = {} THEN SelectSeq(keys, LAMBDA k : k # user_id) ELSE keys

\* web viewer sids of every session in the store
get_all_web_viewer_sids(fd) == UNION {fd[s].web_viewer_sids : s \in Sessions}

\* ------------------------------------------------------------------- Init
InitGate(capacity) ==
    /\ rooms = {}
    /\ conn = [c \in Sids |-> NoConn]
    /\ agent_user_mapping = [u \in Users |-> NoMap]
    /\ web_user_mapping = [u \in Users |-> {}]
    /\ web_user_keys = <<>>
    /\ fallback_data = [s \in Sessions |-> EmptySession]
    /\ agent_session_tracker = [current_session |-> 0, agent_sid |-> 0]
    /\ agent_rate_tracking = [u \in Users |-> NoTrack]
    /\ balance = capacity
    /\ semaphore_capacity = capacity
    /\ tasks = [i \in 1..MaxTasks |-> NoTask]
    /\ cleanups = {}
    /\ session_cleanups = {}
    /\ sent = {}
    /\ finished = NoTask
    /\ flow_check = NoCheck
    /\ session_cleaned = NoCleanup
    /\ since_rate_msg = [u \in Users |-> RATE_CHECK_INTERVAL]
    /\ current_filters = [analysis_mode |-> "continuous"]
    /\ directory = {}
    /\ processed_files = {}
    /\ is_monitoring_active = FALSE
    /\ agent_thread = "none"
    /\ scan_queue = <<>>
    /\ timeout_counter = 0
    /\ pending_file_ack = 0
    /\ file_processing_complete = FALSE
    /\ file_send_interval = DEFAULT_SEND_INTERVAL
    /\ sio_connected = TRUE
    /\ set_filters_pc = "idle"
    /\ emit_log = <<>>
    /\ scan_sent = NoScan
    /\ stop_received = FALSE
    /\ handled = NoEvent

\* the server as configured
Init == InitGate(MAX_CONCURRENT_FILE_TASKS)

\* ------------------------------------------------------ agent connection
\* the sid of the next connection of each kind
NextAgentSid == 1 + Cardinality({x \in AgentSids : conn[x].kind # "none"})
NextViewerSid == MaxAgents + 1 + Cardinality({x \in ViewerSids : conn[x].kind # "none"})

\* str(uuid.uuid4()) / get_session_id(): a fresh session id per connection,
\* named after the connection it is created for
NewSessionId(c) == c

\* a liveness check that finds no room for any sid
is_still_connected_blind(sid) == FALSE

\* is_still_connected: the sid has a room in the live-connection set
is_still_connected(sid) == sid \in rooms

\* a carry-over list that leaves the warnings behind
data_to_migrate_short ==
    {"live_analysis_params", "live_trend_data", "frequency_map_data",
     "frequency_map_params"}

\* the carry-over keys of a reconnection
data_to_migrate ==
    {"live_analysis_params", "live_trend_data", "live_peak_detection_warnings",
     "frequency_map_data", "frequency_map_params"}

\* copy every carry-over key that is set in the old session
MigrateSession(fd, old_session_id, new_session_id) ==
    [fd EXCEPT ![new_session_id] =
        [k \in DOMAIN fd[new_session_id] |->
            IF k \in data_to_migrate /\ fd[old_session_id][k] # <<>>
            THEN fd[old_session_id][k]
            ELSE fd[new_session_id][k]]]

\* handle_connect, agent branch, from the second mapping lookup on: new
\* session id, migration, registration, tracker, notifications.  fd is the
\* store as the first half of the handler left it.
RegisterAgent(c, u, fd) ==
    LET old_agent_session == get_agent_session_by_user_id(agent_user_mapping, u)
        old_session_id == old_agent_session.session_id
        agent_session_id == NewSessionId(c)
        migrated == IF old_session_id # 0 /\ old_session_id # agent_session_id
                    THEN MigrateSession(fd, old_session_id, agent_session_id)
                    ELSE fd
        user_web_viewers == get_web_viewers_by_user_id(web_user_mapping, u)
    IN
    /\ agent_user_mapping' = register_agent_user(agent_user_mapping, u, agent_session_id, c)
    /\ agent_session_tracker' = [current_session |-> agent_session_id, agent_sid |-> c]
    /\ fallback_data' = set_session_agent_sid(migrated, agent_session_id, c)
    /\ conn' = [conn EXCEPT ![c] = [kind |-> "agent", user |-> u, pc |-> "up",
                                     sess |-> agent_session_id]]
    /\ sent' = EmitAll("agent_status_connected", user_web_viewers, u, 0)
               \cup {Msg("session_info", c, u, 0)}

\* handle_connect, agent branch.  The new channel has its room while the
\* handler runs; returning False makes the server drop it again.  The two
\* mapping lookups, the stale-session update and the migration are State
\* Store round-trips, at which other handlers may run: `interleaved` says
\* whether any does before the second lookup (the handler then resumes in
\* HandleConnectRegister) or the handler runs to its end undisturbed.
HandleConnect(u, interleaved) ==
    /\ NextAgentSid <= MaxAgents
    /\ LET c == NextAgentSid
           existing_agent == get_agent_session_by_user_id(agent_user_mapping, u)
           \* stale mapping: clear the old session's agent_sid and the tracker
           fd1 == IF existing_agent # NoMap /\ existing_agent.session_id # 0
                  THEN set_session_agent_sid(fallback_data, existing_agent.session_id, 0)
                  ELSE fallback_data
           tracker1 == IF existing_agent # NoMap
                          /\ agent_session_tracker.agent_sid = existing_agent.agent_sid
                       THEN [current_session |-> 0, agent_sid |-> 0]
                       ELSE agent_session_tracker
       IN
       IF existing_agent # NoMap /\ is_still_connected(existing_agent.agent_sid)
       THEN \* user_id collision: reject
            /\ sent' = {Msg("connection_rejected", c, u, 0)}
            /\ conn' = [conn EXCEPT ![c] = [kind |-> "agent", user |-> u,
                                             pc |-> "rejected", sess |-> 0]]
            /\ UNCHANGED <<rooms, agent_user_mapping, fallback_data,
                           agent_session_tracker>>
       ELSE IF interleaved
       THEN /\ sent' = {}
            /\ rooms' = rooms \cup {c}
            /\ conn' = [conn EXCEPT ![c] = [kind |-> "agent", user |-> u,
                                             pc |-> "checked", sess |-> 0]]
            /\ fallback_data' = fd1
            /\ agent_session_tracker' = tracker1
            /\ UNCHANGED agent_user_mapping
       ELSE /\ rooms' = rooms \cup {c}
            /\ RegisterAgent(c, u, fd1)
    /\ finished' = NoTask
    /\ session_cleaned' = NoCleanup
    /\ flow_check' = NoCheck
    /\ UNCHANGED since_rate_msg
    /\ UNCHANGED <<web_user_mapping, web_user_keys, agent_rate_tracking, balance,
                   tasks, cleanups, session_cleanups>>
    /\ UNCHANGED semaphore_capacity
    /\ UNCHANGED agent_vars

\* handle_connect, agent branch, resumed after the round-trip
HandleConnectRegister(c) ==
    /\ conn[c].pc = "checked"
    /\ RegisterAgent(c, conn[c].user, fallback_data)
    /\ finished' = NoTask
    /\ session_cleaned' = NoCleanup
    /\ flow_check' = NoCheck
    /\ UNCHANGED since_rate_msg
    /\ UNCHANGED <<rooms, web_user_mapping, web_user_keys, agent_rate_tracking,
                   balance, tasks, cleanups, session_cleanups>>
    /\ UNCHANGED semaphore_capacity
    /\ UNCHANGED agent_vars

\* ----------------------------------------------------- viewer connection
\* get_session_id(): the session id of the browser's cookie, a new one when
\* the cookie holds none (0)
get_session_id(c, cookie) == IF cookie = 0 THEN NewSessionId(c) ELSE cookie

\* the session ids a browser can hold in its cookie: those created for an
\* earlier viewer connection
ViewerCookies == {x \in ViewerSids : conn[x].kind = "viewer" /\ conn[x].sess = x}

\* handle_connect, web viewer branch, for a browser without a session
\* (cookie = 0) or one that comes back with the session of its cookie
HandleConnectViewer(cookie) ==
    /\ NextViewerSid <= MaxSid
    /\ cookie = 0 \/ cookie \in ViewerCookies
    /\ LET c == NextViewerSid
           session_id == get_session_id(c, cookie)
       IN
       /\ rooms' = rooms \cup {c}
       /\ conn' = [conn EXCEPT ![c] = [kind |-> "viewer", user |-> "-",
                                        pc |-> "up", sess |-> session_id]]
       /\ fallback_data' = add_session_web_viewer_sid(fallback_data, session_id, c)
       /\ sent' = {Msg("session_info", c, "-", 0),
                   Msg(IF agent_session_tracker.agent_sid # 0
                       THEN "agent_status_connected" ELSE "agent_status_disconnected",
                       c, "-", 0)}
    /\ finished' = NoTask
    /\ session_cleaned' = NoCleanup
    /\ flow_check' = NoCheck
    /\ UNCHANGED since_rate_msg
    /\ UNCHANGED <<agent_user_mapping, web_user_mapping, web_user_keys,
                   agent_session_tracker, agent_rate_tracking, balance, tasks,
                   cleanups, session_cleanups>>
    /\ UNCHANGED semaphore_capacity
    /\ UNCHANGED agent_vars

\* handle_check_agent_connection: the viewer joins the identity's group
\* only when an agent mapping exists
HandleCheckAgentConnection(v, u) ==
    /\ v \in rooms
    /\ conn[v].kind = "viewer"
    /\ LET agent_mapping == get_agent_session_by_user_id(agent_user_mapping, u)
       IN
       IF agent_mapping # NoMap
       THEN /\ web_user_mapping' = register_web_viewer_user(web_user_mapping, u, v)
            /\ web_user_keys' = KeysAfterRegister(web_user_keys, u)
            /\ sent' = {Msg("agent_connection_status_connected", v, u, 0)}
       ELSE /\ sent' = {Msg("agent_connection_status_not_found", v, u, 0)}
            /\ UNCHANGED <<web_user_mapping, web_user_keys>>
    /\ finished' = NoTask
    /\ session_cleaned' = NoCleanup
    /\ flow_check' = NoCheck
    /\ UNCHANGED since_rate_msg
    /\ UNCHANGED <<rooms, conn, agent_user_mapping, fallback_data,
                   agent_session_tracker, agent_rate_tracking, balance, tasks,
                   cleanups, session_cleanups>>
    /\ UNCHANGED semaphore_capacity
    /\ UNCHANGED agent_vars

\* ------------------------------------------------------- historical data
AnalysisTypes == {"swv", "cv", "frequency_map"}

\* live_trend_data.get('cv_results', {})
cv_results_of(live_trend_data) == {x \in live_trend_data : x[1] = "cv_results"}

\* the 'data' of a historical_data_response; the keys cv_segments_data and
\* cv_analysis_params are written nowhere, their reads give the default
HistoricalData(fd, session_id, analysis_type) ==
    IF analysis_type = "swv"
    THEN [analysis_type |-> "swv",
          trend_data |-> get_session_data(fd, session_id, "live_trend_data", {}),
          analysis_params |-> get_session_data(fd, session_id, "live_analysis_params",
                                               EmptyParams),
          peak_detection_warnings |->
              get_session_data(fd, session_id, "live_peak_detection_warnings", {})]
    ELSE [analysis_type |-> "cv",
          segments_data |-> {},
          cv_results |-> cv_results_of(get_session_data(fd, session_id,
                                                        "live_trend_data", {})),
          analysis_params |-> EmptyParams]

\* handle_request_historical_data
HandleRequestHistoricalData(v, u, analysis_type) ==
    /\ v \in rooms
    /\ conn[v].kind = "viewer"
    /\ LET agent_mapping == get_agent_session_by_user_id(agent_user_mapping, u)
       IN
       sent' = IF agent_mapping = NoMap
               THEN {Msg("historical_data_response_error", v, u, 0)}
               ELSE IF analysis_type \in {"swv", "cv"}
               THEN {[Msg("historical_data_response_success", v, u, 0) EXCEPT !.data =
                         <<HistoricalData(fallback_data, agent_mapping.session_id,
                                          analysis_type)>>]}
               ELSE {Msg("historical_data_response_error", v, u, 0)}
    /\ finished' = NoTask
    /\ session_cleaned' = NoCleanup
    /\ flow_check' = NoCheck
    /\ UNCHANGED since_rate_msg
    /\ UNCHANGED <<rooms, conn, agent_user_mapping, web_user_mapping, web_user_keys,
                   fallback_data, agent_session_tracker, agent_rate_tracking, balance,
                   tasks, cleanups, session_cleanups>>
    /\ UNCHANGED semaphore_capacity
    /\ UNCHANGED agent_vars

\* ------------------------------------------------------------ disconnect
\* handle_disconnect for a channel whose connect handler has completed
HandleDisconnect(c) ==
    /\ c \in rooms
    /\ conn[c].pc = "up"
    /\ LET session_id == conn[c].sess
           disconnected_user_id == get_user_id_by_agent_sid(agent_user_mapping, c)
       IN
       IF disconnected_user_id # "-"
       THEN \* agent: start the delayed cleanup, keep the mapping
            /\ cleanups' = cleanups \cup
                   {[user |-> disconnected_user_id, sid |-> c,
                     session |-> IF agent_session_tracker.agent_sid = c
                                 THEN agent_session_tracker.current_session ELSE 0,
                     pc |-> "sleeping"]}
            /\ sent' = {}
            /\ UNCHANGED <<fallback_data, web_user_mapping, web_user_keys, session_cleanups>>
       ELSE IF c \in get_session_web_viewer_sids(fallback_data, session_id)
       THEN LET fd1 == remove_session_web_viewer_sid(fallback_data, session_id, c)
                viewer_user_id == get_user_id_by_web_viewer_sid(web_user_mapping,
                                                                web_user_keys, c)
                w1 == IF viewer_user_id # "-"
                      THEN unregister_web_viewer_user(web_user_mapping, viewer_user_id, c)
                      ELSE web_user_mapping
                fd2 == [fd1 EXCEPT ![session_id].validation_error_sent = FALSE]
            IN
            /\ fallback_data' = fd2
            /\ web_user_mapping' = w1
            /\ web_user_keys' = IF viewer_user_id # "-"
                                THEN KeysAfterUnregister(w1, web_user_keys, viewer_user_id)
                                ELSE web_user_keys
            /\ session_cleanups' =
                   IF get_session_web_viewer_sids(fd2, session_id) = {}
                      /\ get_session_agent_sid(fd2, session_id) = 0
                   THEN session_cleanups \cup {session_id}
                   ELSE session_cleanups
            /\ sent' = {}
            /\ UNCHANGED cleanups
       ELSE /\ sent' = {}
            /\ UNCHANGED <<fallback_data, web_user_mapping, web_user_keys,
                           cleanups, session_cleanups>>
    /\ rooms' = rooms \ {c}
    /\ conn' = [conn EXCEPT ![c].pc = "closed"]
    /\ finished' = NoTask
    /\ session_cleaned' = NoCleanup
    /\ flow_check' = NoCheck
    /\ UNCHANGED since_rate_msg
    /\ UNCHANGED <<agent_user_mapping, agent_session_tracker,
                   agent_rate_tracking, balance, tasks>>
    /\ UNCHANGED semaphore_capacity
    /\ UNCHANGED agent_vars

\* a cleanup test that only asks whether the identity has a mapping
mapping_exists(current_mapping, disconnected_sid) == current_mapping # NoMap

\* delayed_agent_cleanup: `current_mapping and
\* current_mapping.get('agent_sid') == disconnected_sid`
agent_did_not_reconnect(current_mapping, disconnected_sid) ==
    current_mapping # NoMap /\ current_mapping.agent_sid = disconnected_sid

\* delayed_agent_cleanup after its grace period
DelayedAgentCleanup(cl) ==
    /\ cl \in cleanups
    /\ cl.pc = "sleeping"
    /\ cleanups' = cleanups \ {cl}
    /\ LET current_mapping == get_agent_session_by_user_id(agent_user_mapping, cl.user)
       IN
       IF agent_did_not_reconnect(current_mapping, cl.sid)
       THEN /\ agent_user_mapping' = unregister_agent_user(agent_user_mapping, cl.user)
            /\ IF agent_session_tracker.agent_sid = cl.sid
               THEN /\ agent_session_tracker' = [current_session |-> 0, agent_sid |-> 0]
                    /\ fallback_data' = IF cl.session # 0
                                        THEN set_session_agent_sid(fallback_data, cl.session, 0)
                                        ELSE fallback_data
               ELSE UNCHANGED <<agent_session_tracker, fallback_data>>
            /\ sent' = EmitAll("agent_status_disconnected",
                               get_web_viewers_by_user_id(web_user_mapping, cl.user),
                               cl.user, 0)
       ELSE /\ sent' = {}
            /\ UNCHANGED <<agent_user_mapping, agent_session_tracker, fallback_data>>
    /\ finished' = NoTask
    /\ session_cleaned' = NoCleanup
    /\ flow_check' = NoCheck
    /\ UNCHANGED since_rate_msg
    /\ UNCHANGED <<rooms, conn, web_user_mapping, web_user_keys,
                   agent_rate_tracking, balance, tasks, session_cleanups>>
    /\ UNCHANGED semaphore_capacity
    /\ UNCHANGED agent_vars

\* delayed_agent_cleanup up to the answer of get_agent_session_by_user_id:
\* the read of the mapping is a round trip to the store, during which other
\* handlers run; the cleanup goes on with the mapping it was given
DelayedAgentCleanupCheck(cl) ==
    /\ cl \in cleanups
    /\ cl.pc = "sleeping"
    /\ LET current_mapping == get_agent_session_by_user_id(agent_user_mapping, cl.user)
       IN
       cleanups' = IF agent_did_not_reconnect(current_mapping, cl.sid)
                   THEN (cleanups \ {cl}) \cup {[cl EXCEPT !.pc = "cleaning"]}
                   ELSE cleanups \ {cl}
    /\ sent' = {}
    /\ finished' = NoTask
    /\ session_cleaned' = NoCleanup
    /\ flow_check' = NoCheck
    /\ UNCHANGED since_rate_msg
    /\ UNCHANGED <<rooms, conn, agent_user_mapping, web_user_mapping, web_user_keys,
                   fallback_data, agent_session_tracker, agent_rate_tracking, balance,
                   tasks, session_cleanups>>
    /\ UNCHANGED semaphore_capacity
    /\ UNCHANGED agent_vars

\* delayed_agent_cleanup from unregister_agent_user on, for a cleanup whose
\* test of the mapping succeeded
DelayedAgentCleanupUnregister(cl) ==
    /\ cl \in cleanups
    /\ cl.pc = "cleaning"
    /\ cleanups' = cleanups \ {cl}
    /\ agent_user_mapping' = unregister_agent_user(agent_user_mapping, cl.user)
    /\ IF agent_session_tracker.agent_sid = cl.sid
       THEN /\ agent_session_tracker' = [current_session |-> 0, agent_sid |-> 0]
            /\ fallback_data' = IF cl.session # 0
                                THEN set_session_agent_sid(fallback_data, cl.session, 0)
                                ELSE fallback_data
       ELSE UNCHANGED <<agent_session_tracker, fallback_data>>
    /\ sent' = EmitAll("agent_status_disconnected",
                       get_web_viewers_by_user_id(web_user_mapping, cl.user),
                       cl.user, 0)
    /\ finished' = NoTask
    /\ session_cleaned' = NoCleanup
    /\ flow_check' = NoCheck
    /\ UNCHANGED since_rate_msg
    /\ UNCHANGED <<rooms, conn, web_user_mapping, web_user_keys,
                   agent_rate_tracking, balance, tasks, session_cleanups>>
    /\ UNCHANGED semaphore_capacity
    /\ UNCHANGED agent_vars

\* a cleanup that does not look at the session's connections
session_always_abandoned(web_viewer_sids, agent_sid) == TRUE

\* cleanup_session_after_delay: `if not web_viewer_sids and not agent_sid`
session_is_abandoned(web_viewer_sids, agent_sid) ==
    web_viewer_sids = {} /\ agent_sid = 0

\* cleanup_session_after_delay after its delay
CleanupSessionAfterDelay(s) ==
    /\ s \in session_cleanups
    /\ session_cleanups' = session_cleanups \ {s}
    /\ LET abandoned == session_is_abandoned(get_session_web_viewer_sids(fallback_data, s),
                                             get_session_agent_sid(fallback_data, s))
       IN
       /\ fallback_data' = IF abandoned THEN clear_session_data(fallback_data, s)
                           ELSE fallback_data
       /\ session_cleaned' = [session_id |-> s, cleared |-> abandoned]
    /\ sent' = {}
    /\ finished' = NoTask
    /\ flow_check' = NoCheck
    /\ UNCHANGED since_rate_msg
    /\ UNCHANGED <<rooms, conn, agent_user_mapping, web_user_mapping,
                   web_user_keys, agent_session_tracker, agent_rate_tracking, balance,
                   tasks, cleanups>>
    /\ UNCHANGED semaphore_capacity
    /\ UNCHANGED agent_vars

\* ------------------------------------------------------ analysis sessions
Params(mode, e) == [mode |-> mode, electrodes |-> e]

\* the selected_electrodes a viewer may ask for: none (averaged) or all
ElectrodeChoices == {0, NumElectrodes}

\* handle_start_analysis_session (continuous SWV)
HandleStartAnalysisSession(v, u, e) ==
    /\ v \in rooms
    /\ conn[v].kind = "viewer"
    /\ LET session_id == conn[v].sess
           reset(fd, s) ==
               [fd EXCEPT ![s].live_analysis_params = <<Params("continuous", e)>>,
                          ![s].live_trend_data = <<{}>>,
                          ![s].live_peak_detection_warnings = <<{}>>,
                          ![s].validation_error_sent = FALSE]
           fd1 == reset(fallback_data, session_id)
           agent_mapping == get_agent_session_by_user_id(agent_user_mapping, u)
       IN
       IF agent_mapping # NoMap
       THEN /\ fallback_data' = reset(fd1, agent_mapping.session_id)
            /\ sent' = {Msg("set_filters", agent_mapping.agent_sid, u, 0),
                        Msg("ack_start_session_success", v, u, 0)}
       ELSE /\ fallback_data' = fd1
            /\ sent' = {Msg("ack_start_session_error", v, u, 0)}
    /\ finished' = NoTask
    /\ session_cleaned' = NoCleanup
    /\ flow_check' = NoCheck
    /\ UNCHANGED since_rate_msg
    /\ UNCHANGED <<rooms, conn, agent_user_mapping, web_user_mapping,
                   web_user_keys, agent_session_tracker, agent_rate_tracking, balance,
                   tasks, cleanups, session_cleanups>>
    /\ UNCHANGED semaphore_capacity
    /\ UNCHANGED agent_vars

\* handle_start_cv_analysis_session
HandleStartCvAnalysisSession(v, u, e) ==
    /\ v \in rooms
    /\ conn[v].kind = "viewer"
    /\ LET session_id == conn[v].sess
           reset(fd, s) ==
               [fd EXCEPT ![s].live_analysis_params = <<Params("continuous", e)>>,
                          ![s].live_trend_data = <<{}>>,
                          ![s].validation_error_sent = FALSE]
           fd1 == reset(fallback_data, session_id)
           agent_mapping == get_agent_session_by_user_id(agent_user_mapping, u)
       IN
       IF agent_mapping # NoMap
       THEN /\ fallback_data' = reset(fd1, agent_mapping.session_id)
            /\ sent' = {Msg("set_filters", agent_mapping.agent_sid, u, 0),
                        Msg("ack_start_cv_session_success", v, u, 0)}
       ELSE /\ fallback_data' = fd1
            /\ sent' = {Msg("ack_start_cv_session_error", v, u, 0)}
    /\ finished' = NoTask
    /\ session_cleaned' = NoCleanup
    /\ flow_check' = NoCheck
    /\ UNCHANGED since_rate_msg
    /\ UNCHANGED <<rooms, conn, agent_user_mapping, web_user_mapping,
                   web_user_keys, agent_session_tracker, agent_rate_tracking, balance,
                   tasks, cleanups, session_cleanups>>
    /\ UNCHANGED semaphore_capacity
    /\ UNCHANGED agent_vars

\* handle_start_frequency_map_session
HandleStartFrequencyMapSession(v, u, e) ==
    /\ v \in rooms
    /\ conn[v].kind = "viewer"
    /\ LET session_id == conn[v].sess
           reset(fd, s) ==
               [fd EXCEPT ![s].live_analysis_params = <<Params("frequency_map", e)>>,
                          ![s].frequency_map_data = <<{}>>,
                          ![s].validation_error_sent = FALSE]
           fd1 == reset(fallback_data, session_id)
           agent_mapping == get_agent_session_by_user_id(agent_user_mapping, u)
       IN
       IF agent_mapping # NoMap
       THEN /\ fallback_data' = reset(fd1, agent_mapping.session_id)
            /\ sent' = {Msg("set_filters", agent_mapping.agent_sid, u, 0),
                        Msg("ack_start_frequency_map_session_success", v, u, 0)}
       ELSE /\ fallback_data' = fd1
            /\ sent' = {Msg("ack_start_frequency_map_session_error", v, u, 0)}
    /\ finished' = NoTask
    /\ session_cleaned' = NoCleanup
    /\ flow_check' = NoCheck
    /\ UNCHANGED since_rate_msg
    /\ UNCHANGED <<rooms, conn, agent_user_mapping, web_user_mapping,
                   web_user_keys, agent_session_tracker, agent_rate_tracking, balance,
                   tasks, cleanups, session_cleanups>>
    /\ UNCHANGED semaphore_capacity
    /\ UNCHANGED agent_vars

\* ----------------------------------------------------------- flow control
\* seconds since 'last_adjusted', saturating: every comparison of the code
\* is against RATE_CHECK_INTERVAL
SinceAdjustCap == RATE_CHECK_INTERVAL

\* load_ratio in percent, for available_slots = file_processing_semaphore.balance
load_ratio(available_slots) ==
    ((semaphore_capacity - available_slots) * 100) \div semaphore_capacity

\* used slots of the server's gate, around the two thresholds and at the ends
SampledUsedSlots == {0, 5, 6, 7, 15, 16, 17, FullCapacity}

\* the values load_ratio takes for them with the server's capacity, in percent
LoadRatios == {(used * 100) \div FullCapacity : used \in SampledUsedSlots}

\* the tracking entry check_and_adjust_agent_rate works on: a new entry has
\* 'last_adjusted' 0, a time long ago
TrackingOf(user_id) ==
    IF agent_rate_tracking[user_id] = NoTrack
    THEN [current_interval |-> RATE_NORMAL, since_adjust |-> SinceAdjustCap]
    ELSE agent_rate_tracking[user_id]

\* a controller that adjusts at every file arrival
may_adjust_anytime(agent_info) == TRUE

\* `if time_since_adjust < RATE_CHECK_INTERVAL: return`
may_adjust(agent_info) == agent_info.since_adjust >= RATE_CHECK_INTERVAL

\* a controller that slows down whatever the load
should_slow_down_always(agent_info, load) == agent_info.current_interval < RATE_SLOW

should_slow_down(agent_info, load) ==
    load > LOAD_THRESHOLD_HIGH /\ agent_info.current_interval < RATE_SLOW

should_speed_up(agent_info, load) ==
    load < LOAD_THRESHOLD_LOW /\ agent_info.current_interval > RATE_NORMAL

\* a controller that derives the instructed interval from the tracked one
new_interval_stepped(agent_info, load) ==
    IF load > LOAD_THRESHOLD_HIGH
    THEN <<agent_info.current_interval + RATE_NORMAL>>
    ELSE <<agent_info.current_interval - RATE_NORMAL>>

\* the interval check_and_adjust_agent_rate instructs: <<>> when it emits nothing
new_interval(agent_info, load) ==
    IF should_slow_down(agent_info, load)
    THEN <<RATE_SLOW>>
    ELSE IF should_speed_up(agent_info, load)
    THEN <<RATE_NORMAL>>
    ELSE <<>>

\* check_and_adjust_agent_rate: the adjustment it makes, <<>> when none
Adjustment(user_id, load) ==
    IF may_adjust(TrackingOf(user_id))
    THEN new_interval(TrackingOf(user_id), load)
    ELSE <<>>

\* check_and_adjust_agent_rate: the tracking table after the call
RateTrackingAfter(user_id, load) ==
    [agent_rate_tracking EXCEPT ![user_id] =
        IF Adjustment(user_id, load) # <<>>
        THEN [current_interval |-> Adjustment(user_id, load)[1], since_adjust |-> 0]
        ELSE TrackingOf(user_id)]

\* check_and_adjust_agent_rate: the message it emits
RateMessages(user_id, agent_sid, load) ==
    IF Adjustment(user_id, load) # <<>>
    THEN {RateMsg(agent_sid, user_id, Adjustment(user_id, load)[1])}
    ELSE {}

\* the record of the call, and the time since the last message to user_id
FlowCheckOf(user_id, load) ==
    [user |-> user_id, load |-> load, since_msg |-> since_rate_msg[user_id]]

SinceRateMsgAfter(user_id, agent_sid, load) ==
    IF RateMessages(user_id, agent_sid, load) # {}
    THEN [since_rate_msg EXCEPT ![user_id] = 0]
    ELSE since_rate_msg

\* check_and_adjust_agent_rate(user_id, agent_sid) for a file of a registered
\* agent, with the load it samples
CheckAndAdjustAgentRate(user_id, agent_sid, load) ==
    /\ agent_sid \in rooms
    /\ conn[agent_sid].pc = "up"
    /\ get_user_id_by_agent_sid(agent_user_mapping, agent_sid) = user_id
    /\ agent_rate_tracking' = RateTrackingAfter(user_id, load)
    /\ sent' = RateMessages(user_id, agent_sid, load)
    /\ flow_check' = FlowCheckOf(user_id, load)
    /\ since_rate_msg' = SinceRateMsgAfter(user_id, agent_sid, load)
    /\ finished' = NoTask
    /\ session_cleaned' = NoCleanup
    /\ UNCHANGED <<rooms, conn, agent_user_mapping, web_user_mapping,
                   web_user_keys, fallback_data, agent_session_tracker, balance, tasks,
                   cleanups, session_cleanups>>
    /\ UNCHANGED semaphore_capacity
    /\ UNCHANGED agent_vars

\* one second passes
Tick ==
    /\ \E u \in Users : \/ /\ agent_rate_tracking[u] # NoTrack
                           /\ agent_rate_tracking[u].since_adjust < SinceAdjustCap
                        \/ since_rate_msg[u] < SinceAdjustCap
    /\ agent_rate_tracking' =
           [u \in Users |->
               IF agent_rate_tracking[u] # NoTrack
                  /\ agent_rate_tracking[u].since_adjust < SinceAdjustCap
               THEN [agent_rate_tracking[u] EXCEPT !.since_adjust = @ + 1]
               ELSE agent_rate_tracking[u]]
    /\ since_rate_msg' =
           [u \in Users |->
               IF since_rate_msg[u] < SinceAdjustCap
               THEN since_rate_msg[u] + 1 ELSE since_rate_msg[u]]
    /\ flow_check' = NoCheck
    /\ sent' = {}
    /\ finished' = NoTask
    /\ session_cleaned' = NoCleanup
    /\ UNCHANGED <<rooms, conn, agent_user_mapping, web_user_mapping,
                   web_user_keys, fallback_data, agent_session_tracker, balance, tasks,
                   cleanups, session_cleanups>>
    /\ UNCHANGED semaphore_capacity
    /\ UNCHANGED agent_vars

\* ---------------------------------------------------------- stop handlers
\* the part the three stop handlers share: the states of the caller's own
\* session are reset (fd1), and the stop event goes to the agent_sid stored
\* in that session, if any
StopSession(v, fd1, ev) ==
    /\ v \in rooms
    /\ conn[v].kind = "viewer"
    /\ LET session_id == conn[v].sess
           agent_sid == get_session_agent_sid(fd1, session_id)
       IN
       /\ fallback_data' = [fd1 EXCEPT ![session_id].validation_error_sent = FALSE]
       /\ sent' = IF agent_sid # 0 THEN {Msg(ev, agent_sid, "-", 0)} ELSE {}
    /\ finished' = NoTask
    /\ session_cleaned' = NoCleanup
    /\ flow_check' = NoCheck
    /\ UNCHANGED since_rate_msg
    /\ UNCHANGED <<rooms, conn, agent_user_mapping, web_user_mapping,
                   web_user_keys, agent_session_tracker, agent_rate_tracking, balance,
                   tasks, cleanups, session_cleanups>>
    /\ UNCHANGED semaphore_capacity
    /\ UNCHANGED agent_vars

\* handle_stop_analysis_session
HandleStopAnalysisSession(v) ==
    StopSession(v, [fallback_data EXCEPT
                        ![conn[v].sess].live_analysis_params = <<EmptyParams>>,
                        ![conn[v].sess].live_trend_data = <<{}>>,
                        ![conn[v].sess].live_peak_detection_warnings = <<{}>>],
                "stop_data_stream")

\* handle_stop_cv_analysis_session
HandleStopCvAnalysisSession(v) ==
    StopSession(v, [fallback_data EXCEPT
                        ![conn[v].sess].live_analysis_params = <<EmptyParams>>,
                        ![conn[v].sess].live_trend_data = <<{}>>],
                "stop_cv_data_stream")

\* handle_stop_frequency_map_session
HandleStopFrequencyMapSession(v) ==
    StopSession(v, [fallback_data EXCEPT
                        ![conn[v].sess].live_analysis_params = <<EmptyParams>>,
                        ![conn[v].sess].frequency_map_data = <<{}>>],
                "stop_data_stream")

\* ------------------------------------------------------------- dispatch
\* a background task as start_limited_file_task spawns it: it waits for a slot
Task(kind, f, electrode, total, session_id, user_id, sid) ==
    [NoTask EXCEPT !.kind = kind, !.file = f, !.electrode = electrode, !.total = total,
                   !.session_id = session_id, !.user_id = user_id, !.from_sid = sid,
                   !.pc = "queued"]

\* start_limited_file_task once per selected electrode, or once for the
\* averaged data when no electrode is selected
NewTasks(kind, f, n, session_id, user_id, sid) ==
    IF n = 0
    THEN <<Task(kind, f, 0, 1, session_id, user_id, sid)>>
    ELSE [k \in 1..n |-> Task(kind, f, k, n, session_id, user_id, sid)]

FreeSlots(ts) == {i \in 1..MaxTasks : ts[i].pc = "free"}

\* the k-th smallest element of a set of numbers
RECURSIVE KthSmallest(_, _)
KthSmallest(S, k) ==
    LET m == CHOOSE x \in S : \A y \in S : x <= y
    IN IF k = 1 THEN m ELSE KthSmallest(S \ {m}, k - 1)

\* the task table with the new tasks in its first free entries
StartTasks(ts, new) ==
    [i \in 1..MaxTasks |->
        IF \E k \in 1..Len(new) : KthSmallest(FreeSlots(ts), k) = i
        THEN new[CHOOSE k \in 1..Len(new) : KthSmallest(FreeSlots(ts), k) = i]
        ELSE ts[i]]

\* a handler that goes on to dispatch a file it has rejected
dispatch_rejected_file(ts, new) == StartTasks(ts, new)

\* the task table after `if not is_safe: emit('file_validation_error'); return`:
\* the handler returns before any start_limited_file_task
TasksAfterRejection(ts, new) == ts

\* handle_instrument_data (stream_instrument_data)
HandleInstrumentData(c, f, is_safe, name_matches) ==
    /\ c \in rooms
    /\ conn[c].pc = "up"
    /\ LET user_id == get_user_id_by_agent_sid(agent_user_mapping, c)
       IN
       IF user_id = "-"
       THEN /\ sent' = {Msg("file_validation_error", c, "-", f)}
            /\ flow_check' = NoCheck
            /\ UNCHANGED <<agent_rate_tracking, tasks, since_rate_msg>>
       ELSE LET agent_session_id ==
                    get_agent_session_by_user_id(agent_user_mapping, user_id).session_id
                live_analysis_params ==
                    get_session_data(fallback_data, agent_session_id,
                                     "live_analysis_params", EmptyParams)
                n == live_analysis_params.electrodes
                kind == IF live_analysis_params.mode = "frequency_map"
                        THEN "fmap" ELSE "swv"
                new == NewTasks(kind, f, n, agent_session_id, user_id, c)
            IN
            /\ agent_rate_tracking' = RateTrackingAfter(user_id, load_ratio(balance))
            /\ flow_check' = FlowCheckOf(user_id, load_ratio(balance))
            /\ since_rate_msg' = SinceRateMsgAfter(user_id, c, load_ratio(balance))
            /\ IF ~ is_safe
               THEN /\ sent' = RateMessages(user_id, c, load_ratio(balance))
                               \cup {Msg("file_validation_error", c, user_id, f)}
                    /\ tasks' = TasksAfterRejection(tasks, new)
               ELSE IF live_analysis_params = EmptyParams \/ ~ name_matches
               THEN /\ sent' = RateMessages(user_id, c, load_ratio(balance))
                    /\ UNCHANGED tasks
               ELSE /\ Len(new) <= Cardinality(FreeSlots(tasks))
                    /\ tasks' = StartTasks(tasks, new)
                    /\ sent' = RateMessages(user_id, c, load_ratio(balance))
    /\ finished' = NoTask
    /\ session_cleaned' = NoCleanup
    /\ UNCHANGED <<rooms, conn, agent_user_mapping, web_user_mapping,
                   web_user_keys, fallback_data, agent_session_tracker, balance,
                   cleanups, session_cleanups>>
    /\ UNCHANGED semaphore_capacity
    /\ UNCHANGED agent_vars

\* handle_cv_instrument_data (stream_cv_data)
HandleCvInstrumentData(c, f, is_safe) ==
    /\ c \in rooms
    /\ conn[c].pc = "up"
    /\ LET user_id == get_user_id_by_agent_sid(agent_user_mapping, c)
       IN
       IF user_id = "-"
       THEN /\ sent' = {}
            /\ flow_check' = NoCheck
            /\ UNCHANGED <<agent_rate_tracking, tasks, since_rate_msg>>
       ELSE LET session_id ==
                    get_agent_session_by_user_id(agent_user_mapping, user_id).session_id
                live_analysis_params ==
                    get_session_data(fallback_data, session_id,
                                     "live_analysis_params", EmptyParams)
                new == NewTasks("cv", f, live_analysis_params.electrodes,
                                session_id, "-", c)
            IN
            /\ agent_rate_tracking' = RateTrackingAfter(user_id, load_ratio(balance))
            /\ flow_check' = FlowCheckOf(user_id, load_ratio(balance))
            /\ since_rate_msg' = SinceRateMsgAfter(user_id, c, load_ratio(balance))
            /\ IF ~ is_safe
               THEN /\ sent' = RateMessages(user_id, c, load_ratio(balance))
                               \cup {Msg("file_validation_error", c, user_id, f)}
                    /\ tasks' = TasksAfterRejection(tasks, new)
               ELSE IF live_analysis_params = EmptyParams
               THEN /\ sent' = RateMessages(user_id, c, load_ratio(balance))
                    /\ UNCHANGED tasks
               ELSE /\ Len(new) <= Cardinality(FreeSlots(tasks))
                    /\ tasks' = StartTasks(tasks, new)
                    /\ sent' = RateMessages(user_id, c, load_ratio(balance))
    /\ finished' = NoTask
    /\ session_cleaned' = NoCleanup
    /\ UNCHANGED <<rooms, conn, agent_user_mapping, web_user_mapping,
                   web_user_keys, fallback_data, agent_session_tracker, balance,
                   cleanups, session_cleanups>>
    /\ UNCHANGED semaphore_capacity
    /\ UNCHANGED agent_vars

\* handle_cv_data_from_agent (cv_data_from_agent) for a file sent for
\* analysis: the sender is compared with the global tracker, and the
\* session, the parameters and the acknowledgment come from the tracker too
HandleCvDataFromAgent(c, f) ==
    /\ c \in rooms
    /\ conn[c].pc = "up"
    /\ LET agent_sid == agent_session_tracker.agent_sid
           session_id == agent_session_tracker.current_session
           live_analysis_params ==
               get_session_data(fallback_data, session_id,
                                "live_analysis_params", EmptyParams)
           new == NewTasks("cv", f, live_analysis_params.electrodes, session_id, "-", c)
       IN
       IF c # agent_sid \/ session_id = 0
       THEN /\ sent' = {}
            /\ UNCHANGED tasks
       ELSE IF live_analysis_params = EmptyParams
       THEN /\ sent' = {Msg("file_processing_complete", agent_sid, conn[c].user, f)}
            /\ UNCHANGED tasks
       ELSE /\ Len(new) <= Cardinality(FreeSlots(tasks))
            /\ tasks' = StartTasks(tasks, new)
            /\ sent' = {}
    /\ finished' = NoTask
    /\ session_cleaned' = NoCleanup
    /\ flow_check' = NoCheck
    /\ UNCHANGED since_rate_msg
    /\ UNCHANGED <<rooms, conn, agent_user_mapping, web_user_mapping,
                   web_user_keys, fallback_data, agent_session_tracker,
                   agent_rate_tracking, balance, cleanups, session_cleanups>>
    /\ UNCHANGED semaphore_capacity
    /\ UNCHANGED agent_vars

\* ------------------------------------------------------- admission gate
\* a gate that never blocks
SemaphoreNeverBlocks(b) == TRUE

\* file_processing_semaphore.__enter__ : blocks while no slot is free
SemaphoreCanAcquire(b) == b > 0
SemaphoreAcquire(b) == b - 1

\* a release that is skipped when the body raised
SemaphoreReleaseOnReturn(b, raised) == IF raised THEN b ELSE b + 1

\* file_processing_semaphore.__exit__ : runs whether or not the body raised
SemaphoreRelease(b, raised) == b + 1

\* wrapped_task enters `with file_processing_semaphore`
TaskAcquire(i) ==
    /\ tasks[i].pc = "queued"
    /\ SemaphoreCanAcquire(balance)
    /\ balance' = SemaphoreAcquire(balance)
    /\ tasks' = [tasks EXCEPT ![i].pc = "running"]
    /\ sent' = {}
    /\ finished' = NoTask
    /\ session_cleaned' = NoCleanup
    /\ flow_check' = NoCheck
    /\ UNCHANGED since_rate_msg
    /\ UNCHANGED <<rooms, conn, agent_user_mapping, web_user_mapping,
                   web_user_keys, fallback_data, agent_session_tracker,
                   agent_rate_tracking, cleanups, session_cleanups>>
    /\ UNCHANGED semaphore_capacity
    /\ UNCHANGED agent_vars

\* --------------------------------------------------------- file tasks
Outcomes == {"success", "warning", "error", "electrode_error", "exception"}

\* the identity whose agent sent the file of task t
SrcUser(t) == conn[t.from_sid].user

AckMsgs(agent_sid, t) ==
    IF agent_sid # 0 THEN {Msg("file_processing_complete", agent_sid, SrcUser(t), t.file)}
    ELSE {}

\* the electrode-validation branch shared by the three task functions:
\* flag the session, tell every web viewer of every session, return
ElectrodeValidationError(t) ==
    IF fallback_data[t.session_id].validation_error_sent
    THEN [fd |-> fallback_data, msgs |-> {}, ack |-> 0]
    ELSE LET fd1 == [fallback_data EXCEPT ![t.session_id].validation_error_sent = TRUE]
         IN [fd |-> fd1,
             msgs |-> EmitAll("electrode_validation_error",
                              get_all_web_viewer_sids(fd1), SrcUser(t), t.file),
             ack |-> 0]

\* process_file_in_background after analyze_swv_data returned or raised,
\* with `trend` the live_trend_data record the task holds
StoreAndReport(t, outcome, trend) ==
    IF outcome = "electrode_error" THEN ElectrodeValidationError(t)
    ELSE IF outcome \in {"success", "warning"}
    THEN LET fd1 == set_session_data(fallback_data, t.session_id, "live_trend_data",
                                     trend \cup {<<"raw_peaks", t.electrode, t.file>>})
             warnings == get_session_data(fd1, t.session_id,
                                          "live_peak_detection_warnings", {})
             fd2 == IF outcome = "warning"
                    THEN set_session_data(fd1, t.session_id, "live_peak_detection_warnings",
                                          warnings \cup {<<t.electrode, t.file>>})
                    ELSE fd1
             \* the user_id argument is replaced by the session's reverse lookup
             user_id == get_user_id_by_session_id(agent_user_mapping, t.session_id)
             user_web_viewers == IF user_id # "-"
                                 THEN get_web_viewers_by_user_id(web_user_mapping, user_id)
                                 ELSE {}
             agent_sid == get_current_agent_sid(agent_user_mapping, fd2, user_id,
                                                t.session_id)
         IN [fd |-> fd2,
             msgs |-> EmitAll("live_analysis_update", user_web_viewers, SrcUser(t), t.file)
                      \cup AckMsgs(agent_sid, t),
             ack |-> agent_sid]
    ELSE \* status error, or an exception: the except branch acknowledges
         LET agent_sid == get_current_agent_sid(agent_user_mapping, fallback_data,
                                                t.user_id, t.session_id)
         IN [fd |-> fallback_data, msgs |-> AckMsgs(agent_sid, t), ack |-> agent_sid]

\* process_file_in_background, the read of live_trend_data and its update
\* in one step
ProcessFileInBackground(t, outcome) ==
    StoreAndReport(t, outcome,
                   get_session_data(fallback_data, t.session_id, "live_trend_data", {}))

\* the end of the electrode completion tracking: file_progress holds
\* `completed` as it was read from the session store
WriteProgress(fd, t, file_progress) ==
    LET completed == file_progress + 1
        agent_sid == get_current_agent_sid(agent_user_mapping, fd, t.user_id, t.session_id)
    IN IF completed >= t.total
       THEN [fd |-> [fd EXCEPT ![t.session_id].file_processing[t.file] = 0],
             msgs |-> AckMsgs(agent_sid, t), ack |-> agent_sid]
       ELSE [fd |-> [fd EXCEPT ![t.session_id].file_processing[t.file] = completed],
             msgs |-> {}, ack |-> 0]

\* electrode completion tracking of process_frequency_map_file, the read
\* of the counter and its update in one step
TrackElectrodeCompletion(fd, t) ==
    WriteProgress(fd, t, fd[t.session_id].file_processing[t.file])

\* process_frequency_map_file after analyze_swv_data returned or raised
ProcessFrequencyMapFile(t, outcome) ==
    IF outcome = "electrode_error" THEN ElectrodeValidationError(t)
    ELSE IF outcome \in {"success", "warning"}
    THEN LET frequency_map_data ==
                 get_session_data(fallback_data, t.session_id, "frequency_map_data", {})
             already_processed == <<t.electrode, t.file>> \in frequency_map_data
             agent_sid == get_current_agent_sid(agent_user_mapping, fallback_data,
                                                t.user_id, t.session_id)
             fd1 == set_session_data(fallback_data, t.session_id, "frequency_map_data",
                                     frequency_map_data \cup {<<t.electrode, t.file>>})
             track == TrackElectrodeCompletion(fd1, t)
         IN IF already_processed
            THEN [fd |-> fallback_data, msgs |-> AckMsgs(agent_sid, t), ack |-> agent_sid]
            ELSE [fd |-> track.fd,
                  msgs |-> EmitAll("frequency_map_update", get_all_web_viewer_sids(fd1),
                                   SrcUser(t), t.file) \cup track.msgs,
                  ack |-> track.ack]
    ELSE TrackElectrodeCompletion(fallback_data, t)

\* process_cv_file_in_background after analyze_cv_data returned or raised
ProcessCvFileInBackground(t, outcome) ==
    LET agent_sid == agent_session_tracker.agent_sid
    IN IF outcome = "electrode_error" THEN ElectrodeValidationError(t)
       ELSE IF outcome = "exception"
       THEN [fd |-> fallback_data, msgs |-> AckMsgs(agent_sid, t), ack |-> agent_sid]
       ELSE LET trend == get_session_data(fallback_data, t.session_id,
                                          "live_trend_data", {})
                fd1 == IF outcome = "success"
                       THEN set_session_data(fallback_data, t.session_id, "live_trend_data",
                                             trend \cup {<<"cv_results", t.electrode, t.file>>})
                       ELSE fallback_data
            IN [fd |-> fd1,
                msgs |-> EmitAll("live_cv_update", get_all_web_viewer_sids(fd1),
                                 SrcUser(t), t.file) \cup AckMsgs(agent_sid, t),
                ack |-> agent_sid]

TargetFunction(t, outcome) ==
    IF t.kind = "swv" THEN ProcessFileInBackground(t, outcome)
    ELSE IF t.kind = "fmap" THEN ProcessFrequencyMapFile(t, outcome)
    ELSE ProcessCvFileInBackground(t, outcome)

\* the outcomes the analyzer can have for task t: the electrode validation
\* error needs a selected electrode, the CV analyzer has no warning status
OutcomesOf(t) ==
    {o \in Outcomes : /\ (o = "electrode_error" => t.electrode # 0)
                      /\ (o = "warning" => t.kind # "cv")}

\* wrapped_task runs target_function and leaves the `with` block; `raised`
\* says that target_function ended by raising (its final temp-file removal
\* failed) instead of returning
TaskFinish(i, outcome, raised) ==
    /\ tasks[i].pc = "running"
    /\ outcome \in OutcomesOf(tasks[i])
    /\ LET t == tasks[i]
           r == TargetFunction(t, outcome)
       IN
       /\ fallback_data' = r.fd
       /\ sent' = r.msgs
       /\ tasks' = [tasks EXCEPT ![i] = NoTask]
       /\ finished' = [t EXCEPT !.pc = "done", !.outcome = outcome, !.raised = raised,
                                !.acked = r.ack,
                                !.resolved = agent_user_mapping[SrcUser(t)].agent_sid]
    /\ balance' = SemaphoreRelease(balance, raised)
    /\ flow_check' = NoCheck
    /\ session_cleaned' = NoCleanup
    /\ UNCHANGED since_rate_msg
    /\ UNCHANGED <<rooms, conn, agent_user_mapping, web_user_mapping,
                   web_user_keys, agent_session_tracker, agent_rate_tracking,
                   cleanups, session_cleanups>>
    /\ UNCHANGED semaphore_capacity
    /\ UNCHANGED agent_vars

\* process_frequency_map_file up to the answer of
\* get_session_data(session_id, file_processing_key): the result is stored and
\* broadcast, the counter is read, and other tasks run before the update
TaskReadProgress(i, outcome) ==
    /\ tasks[i].pc = "running"
    /\ tasks[i].kind = "fmap"
    /\ outcome \in OutcomesOf(tasks[i]) \ {"electrode_error"}
    /\ LET t == tasks[i]
           stored == outcome \in {"success", "warning"}
           frequency_map_data ==
               get_session_data(fallback_data, t.session_id, "frequency_map_data", {})
           fd1 == IF stored
                  THEN set_session_data(fallback_data, t.session_id, "frequency_map_data",
                                        frequency_map_data \cup {<<t.electrode, t.file>>})
                  ELSE fallback_data
       IN
       /\ stored => <<t.electrode, t.file>> \notin frequency_map_data
       /\ fallback_data' = fd1
       /\ sent' = IF stored
                  THEN EmitAll("frequency_map_update", get_all_web_viewer_sids(fd1),
                               SrcUser(t), t.file)
                  ELSE {}
       /\ tasks' = [tasks EXCEPT ![i].pc = "tracking", ![i].outcome = outcome,
                                 ![i].progress = fd1[t.session_id].file_processing[t.file]]
    /\ finished' = NoTask
    /\ flow_check' = NoCheck
    /\ session_cleaned' = NoCleanup
    /\ UNCHANGED since_rate_msg
    /\ UNCHANGED <<rooms, conn, agent_user_mapping, web_user_mapping,
                   web_user_keys, agent_session_tracker, agent_rate_tracking,
                   balance, cleanups, session_cleanups>>
    /\ UNCHANGED semaphore_capacity
    /\ UNCHANGED agent_vars

\* process_frequency_map_file from `file_progress['completed'] += 1` on, and
\* the end of wrapped_task
TaskWriteProgress(i, raised) ==
    /\ tasks[i].pc = "tracking"
    /\ LET t == tasks[i]
           r == WriteProgress(fallback_data, t, t.progress)
       IN
       /\ fallback_data' = r.fd
       /\ sent' = r.msgs
       /\ tasks' = [tasks EXCEPT ![i] = NoTask]
       /\ finished' = [t EXCEPT !.pc = "done", !.raised = raised, !.acked = r.ack,
                                !.resolved = agent_user_mapping[SrcUser(t)].agent_sid]
    /\ balance' = SemaphoreRelease(balance, raised)
    /\ flow_check' = NoCheck
    /\ session_cleaned' = NoCleanup
    /\ UNCHANGED since_rate_msg
    /\ UNCHANGED <<rooms, conn, agent_user_mapping, web_user_mapping,
                   web_user_keys, agent_session_tracker, agent_rate_tracking,
                   cleanups, session_cleanups>>
    /\ UNCHANGED semaphore_capacity
    /\ UNCHANGED agent_vars

\* process_file_in_background up to the answer of
\* get_session_data(session_id, 'live_trend_data'): the task holds its own
\* copy of the record, and other tasks run before it is written back
TaskReadTrend(i, outcome) ==
    /\ tasks[i].pc = "running"
    /\ tasks[i].kind = "swv"
    /\ outcome \in {"success", "warning"}
    /\ tasks' = [tasks EXCEPT
                     ![i].pc = "storing", ![i].outcome = outcome,
                     ![i].live_trend_data =
                         get_session_data(fallback_data, tasks[i].session_id,
                                          "live_trend_data", {})]
    /\ sent' = {}
    /\ finished' = NoTask
    /\ flow_check' = NoCheck
    /\ session_cleaned' = NoCleanup
    /\ UNCHANGED since_rate_msg
    /\ UNCHANGED <<rooms, conn, agent_user_mapping, web_user_mapping,
                   web_user_keys, fallback_data, agent_session_tracker,
                   agent_rate_tracking, balance, cleanups, session_cleanups>>
    /\ UNCHANGED semaphore_capacity
    /\ UNCHANGED agent_vars

\* process_file_in_background from the update of its copy of live_trend_data
\* on, and the end of wrapped_task
TaskWriteTrend(i, raised) ==
    /\ tasks[i].pc = "storing"
    /\ LET t == tasks[i]
           r == StoreAndReport(t, t.outcome, t.live_trend_data)
       IN
       /\ fallback_data' = r.fd
       /\ sent' = r.msgs
       /\ tasks' = [tasks EXCEPT ![i] = NoTask]
       /\ finished' = [t EXCEPT !.pc = "done", !.raised = raised, !.acked = r.ack,
                                !.resolved = agent_user_mapping[SrcUser(t)].agent_sid]
    /\ balance' = SemaphoreRelease(balance, raised)
    /\ flow_check' = NoCheck
    /\ session_cleaned' = NoCleanup
    /\ UNCHANGED since_rate_msg
    /\ UNCHANGED <<rooms, conn, agent_user_mapping, web_user_mapping,
                   web_user_keys, agent_session_tracker, agent_rate_tracking,
                   cleanups, session_cleanups>>
    /\ UNCHANGED semaphore_capacity
    /\ UNCHANGED agent_vars

\* ================================================================ agent
\* a file name is the rank sorted() gives it among the names; the names are
\* h_10Hz_1.txt, h_10Hz_2.txt, h_20Hz_1.txt, h_20Hz_2.txt, ... and every one
\* of them matches the filters

\* the number monitor_directory_loop extracts from the name
FileNumber(f) == IF f % 2 = 1 THEN 1 ELSE 2

\* sorted(S) for a set of names or of numbers
RECURSIVE sorted(_)
sorted(S) ==
    IF S = {}
    THEN <<>>
    ELSE LET first == CHOOSE x \in S : \A y \in S : x <= y
         IN <<first>> \o sorted(S \ {first})

\* the name after the numbered ones is h_99Hz1.txt: file_matches_filters
\* accepts it (its pattern _(\d+)Hz_?_?(\d+)\. allows no underscore before
\* the number), and it is written only where WatchedNames is used
WatchedNames == 1..(MaxAgentFiles + 1)

\* monitor_directory_loop: re.search(r'_{1,2}(\d+)\.', remaining) finds a
\* number in the name
GroupingMatches(f) == f \in AgentFiles

\* files_by_number of monitor_directory_loop: `if match:` leaves a name
\* without a match out of every group
files_by_number(files) ==
    [num \in {FileNumber(f) : f \in {g \in files : GroupingMatches(g)}} |->
        {f \in files : GroupingMatches(f) /\ FileNumber(f) = num}]

\* for num in nums: for filename in sorted(groups[num])
RECURSIVE SendGroups(_, _)
SendGroups(groups, nums) ==
    IF nums = <<>>
    THEN <<>>
    ELSE sorted(groups[Head(nums)]) \o SendGroups(groups, Tail(nums))

\* a monitor that sends every scan in name order
SendOrderByName(files, mode) == sorted(files)

\* the order in which monitor_directory_loop sends the files of one scan
SendOrder(files, mode) ==
    IF mode = "frequency_map"
    THEN sorted(files)
    ELSE SendGroups(files_by_number(files), sorted(DOMAIN files_by_number(files)))

\* new_matching_files of monitor_directory_loop
new_matching_files == directory \ processed_files

\* a handler that takes the requested interval as it comes
TakeRequestedInterval(requested_interval) == requested_interval

\* on_adjust_send_rate: the safety limits on the requested interval
ClampInterval(requested_interval) ==
    IF requested_interval < MIN_SEND_INTERVAL
    THEN MIN_SEND_INTERVAL
    ELSE IF requested_interval > MAX_SEND_INTERVAL
    THEN MAX_SEND_INTERVAL
    ELSE requested_interval

\* values of 'interval' in an adjust_send_rate message, hundredths of a second
RequestedIntervals == {-10, 0, 4, 5, 6, 10, 99, 100, 101, 500}

AnalysisModes == {"continuous", "frequency_map"}

\* the entry of emit_log for a file that is being emitted
Emitted(f) == [file |-> f, after_stop |-> stop_received, ended |-> "-"]

\* emit_log when the wait for the last emitted file ends
WaitEnded(how) ==
    IF emit_log # <<>>
    THEN [emit_log EXCEPT ![Len(emit_log)].ended = how]
    ELSE emit_log

\* the wait loop of send_file_to_server goes on
StillWaiting ==
    /\ ~ file_processing_complete
    /\ timeout_counter < max_wait_time
    /\ is_monitoring_active

\* send_file_to_server after the wait loop: how the wait ended
WaitOutcome ==
    IF ~ is_monitoring_active
    THEN "stop"
    ELSE IF file_processing_complete
    THEN "ack"
    ELSE "timeout"

\* a reset that is skipped when the wait timed out
PendingKeptOnTimeout(how) == IF how = "timeout" THEN pending_file_ack ELSE 0

\* send_file_to_server after the wait loop: `pending_file_ack = None`
PendingAfterWait(how) == 0

\* a monitor that forgets the files it has sent
ProcessedUnmarked(files, filename) == files

\* monitor_directory_loop: `processed_files.add(filename)`
ProcessedAfterSend(files, filename) == files \cup {filename}

\* a monitor that marks the file whose send failed
ProcessedMarkedOnAbort(files, filename) == files \cup {filename}

\* monitor_directory_loop: `else: ... return` after a send that returned
\* False; processed_files.add is not reached
ProcessedAfterAbort(files, filename) == files

\* a stop handler that leaves the monitoring flag as it is
monitoring_left_on == is_monitoring_active

\* on_stop_data_stream, on_stop_cv_data_stream: `is_monitoring_active = False`
monitoring_after_stop == FALSE

\* an event handler of the agent can run: the client is connected and its
\* receive thread is not inside on_set_filters
CanHandle == sio_connected /\ set_filters_pc = "idle"

\* on_set_filters up to `processed_files = set()`
OnSetFilters(analysis_mode) ==
    /\ CanHandle
    /\ current_filters' = [analysis_mode |-> analysis_mode]
    /\ processed_files' = {}
    /\ set_filters_pc' = "reset"
    /\ emit_log' = <<>>
    /\ stop_received' = FALSE
    /\ handled' = [NoEvent EXCEPT !.ev = "set_filters"]
    /\ UNCHANGED <<directory, is_monitoring_active, agent_thread, scan_queue,
                   timeout_counter, pending_file_ack, file_processing_complete,
                   file_send_interval, sio_connected, scan_sent>>
    /\ UNCHANGED server_vars

\* on_set_filters: `if agent_thread and agent_thread.is_alive()`, up to the join
OnSetFiltersStop ==
    /\ set_filters_pc = "reset"
    /\ is_monitoring_active' = IF agent_thread # "none" THEN FALSE ELSE is_monitoring_active
    /\ set_filters_pc' = "join"
    /\ handled' = NoEvent
    /\ UNCHANGED <<current_filters, directory, processed_files, agent_thread,
                   scan_queue, timeout_counter, pending_file_ack,
                   file_processing_complete, file_send_interval, sio_connected,
                   emit_log, scan_sent, stop_received>>
    /\ UNCHANGED server_vars

\* on_set_filters after the join: the previous thread has ended; a thread is
\* started unless no folder is selected
OnSetFiltersStart(folder_selected) ==
    /\ set_filters_pc = "join"
    /\ agent_thread = "none"
    /\ is_monitoring_active' = TRUE
    /\ agent_thread' = IF folder_selected THEN "loop" ELSE "none"
    /\ set_filters_pc' = "idle"
    /\ handled' = NoEvent
    /\ UNCHANGED <<current_filters, directory, processed_files, scan_queue,
                   timeout_counter, pending_file_ack, file_processing_complete,
                   file_send_interval, sio_connected, emit_log, scan_sent,
                   stop_received>>
    /\ UNCHANGED server_vars

\* monitor_directory_loop: `while is_monitoring_active` and the scan of the folder
MonitorScan ==
    /\ agent_thread = "loop"
    /\ IF ~ is_monitoring_active
       THEN /\ agent_thread' = "none"
            /\ UNCHANGED <<scan_queue, scan_sent>>
       ELSE /\ scan_queue' = SendOrder(new_matching_files, current_filters.analysis_mode)
            /\ scan_sent' = [analysis_mode |-> current_filters.analysis_mode, files |-> <<>>]
            /\ agent_thread' = IF new_matching_files = {} THEN "poll" ELSE "for"
    /\ handled' = NoEvent
    /\ UNCHANGED <<current_filters, directory, processed_files, is_monitoring_active,
                   timeout_counter, pending_file_ack, file_processing_complete,
                   file_send_interval, sio_connected, set_filters_pc, emit_log,
                   stop_received>>
    /\ UNCHANGED server_vars

\* monitor_directory_loop: the head of the loop over the files of the scan,
\* with `if not is_monitoring_active: return`
MonitorNext ==
    /\ agent_thread = "for"
    /\ IF scan_queue = <<>>
       THEN /\ agent_thread' = "poll"
            /\ UNCHANGED scan_queue
       ELSE IF ~ is_monitoring_active
       THEN /\ agent_thread' = "none"
            /\ scan_queue' = <<>>
       ELSE /\ agent_thread' = "send"
            /\ UNCHANGED scan_queue
    /\ handled' = NoEvent
    /\ UNCHANGED <<current_filters, directory, processed_files, is_monitoring_active,
                   timeout_counter, pending_file_ack, file_processing_complete,
                   file_send_interval, sio_connected, set_filters_pc, emit_log,
                   scan_sent, stop_received>>
    /\ UNCHANGED server_vars

\* send_file_to_server up to the emit; the monitor returns when it fails
SendFileToServer(readable) ==
    /\ agent_thread = "send"
    /\ Len(emit_log) < MaxLog
    /\ IF ~ readable
       THEN /\ pending_file_ack' = 0
            /\ agent_thread' = "none"
            /\ scan_queue' = <<>>
            /\ processed_files' = ProcessedAfterAbort(processed_files, Head(scan_queue))
            /\ UNCHANGED <<file_processing_complete, timeout_counter, emit_log,
                           scan_sent, is_monitoring_active>>
       ELSE IF sio_connected
       THEN /\ file_processing_complete' = FALSE
            /\ pending_file_ack' = Head(scan_queue)
            /\ emit_log' = Append(emit_log, Emitted(Head(scan_queue)))
            /\ scan_sent' = [scan_sent EXCEPT !.files = Append(@, Head(scan_queue))]
            /\ timeout_counter' = 0
            /\ agent_thread' = "wait"
            /\ UNCHANGED <<scan_queue, is_monitoring_active, processed_files>>
       ELSE /\ is_monitoring_active' = FALSE
            /\ agent_thread' = "none"
            /\ scan_queue' = <<>>
            /\ processed_files' = ProcessedAfterAbort(processed_files, Head(scan_queue))
            /\ UNCHANGED <<file_processing_complete, pending_file_ack, timeout_counter,
                           emit_log, scan_sent>>
    /\ handled' = NoEvent
    /\ UNCHANGED <<current_filters, directory, file_send_interval,
                   sio_connected, set_filters_pc, stop_received>>
    /\ UNCHANGED server_vars

\* a wait loop that does not count the time it slept
WaitLoopUncounted ==
    /\ agent_thread = "wait"
    /\ StillWaiting
    /\ timeout_counter' = timeout_counter
    /\ handled' = NoEvent
    /\ UNCHANGED <<current_filters, directory, processed_files, is_monitoring_active,
                   agent_thread, scan_queue, pending_file_ack,
                   file_processing_complete, file_send_interval, sio_connected,
                   set_filters_pc, emit_log, scan_sent, stop_received>>
    /\ UNCHANGED server_vars

\* send_file_to_server: one iteration of the wait loop
WaitLoop ==
    /\ agent_thread = "wait"
    /\ StillWaiting
    /\ timeout_counter' = timeout_counter + 1
    /\ handled' = NoEvent
    /\ UNCHANGED <<current_filters, directory, processed_files, is_monitoring_active,
                   agent_thread, scan_queue, pending_file_ack,
                   file_processing_complete, file_send_interval, sio_connected,
                   set_filters_pc, emit_log, scan_sent, stop_received>>
    /\ UNCHANGED server_vars

\* send_file_to_server after the wait loop: interrupted by a stop, confirmed
\* by the server, or timed out
WaitEnd ==
    /\ agent_thread = "wait"
    /\ ~ StillWaiting
    /\ pending_file_ack' = PendingAfterWait(WaitOutcome)
    /\ emit_log' = WaitEnded(WaitOutcome)
    /\ IF WaitOutcome = "stop"
       THEN /\ agent_thread' = "none"
            /\ scan_queue' = <<>>
            /\ processed_files' = ProcessedAfterAbort(processed_files, Head(scan_queue))
       ELSE /\ agent_thread' = "mark"
            /\ UNCHANGED <<scan_queue, processed_files>>
    /\ handled' = NoEvent
    /\ UNCHANGED <<current_filters, directory, is_monitoring_active,
                   timeout_counter, file_processing_complete, file_send_interval,
                   sio_connected, set_filters_pc, scan_sent, stop_received>>
    /\ UNCHANGED server_vars

\* monitor_directory_loop: `processed_files.add(filename)` after a send that returned True
MarkProcessed ==
    /\ agent_thread = "mark"
    /\ processed_files' = ProcessedAfterSend(processed_files, Head(scan_queue))
    /\ scan_queue' = Tail(scan_queue)
    /\ agent_thread' = "for"
    /\ handled' = NoEvent
    /\ UNCHANGED <<current_filters, directory, is_monitoring_active, timeout_counter,
                   pending_file_ack, file_processing_complete, file_send_interval,
                   sio_connected, set_filters_pc, emit_log, scan_sent, stop_received>>
    /\ UNCHANGED server_vars

\* monitor_directory_loop: time.sleep(POLLING_INTERVAL_SECONDS)
PollSleep ==
    /\ agent_thread = "poll"
    /\ agent_thread' = "loop"
    /\ handled' = NoEvent
    /\ UNCHANGED <<current_filters, directory, processed_files, is_monitoring_active,
                   scan_queue, timeout_counter, pending_file_ack,
                   file_processing_complete, file_send_interval, sio_connected,
                   set_filters_pc, emit_log, scan_sent, stop_received>>
    /\ UNCHANGED server_vars

\* the instrument writes a file into the watched folder
FileWritten(f) ==
    /\ f \notin directory
    /\ directory' = directory \cup {f}
    /\ handled' = NoEvent
    /\ UNCHANGED <<current_filters, processed_files, is_monitoring_active,
                   agent_thread, scan_queue, timeout_counter, pending_file_ack,
                   file_processing_complete, file_send_interval, sio_connected,
                   set_filters_pc, emit_log, scan_sent, stop_received>>
    /\ UNCHANGED server_vars

\* a test that takes any acknowledgment while a file is pending
ack_while_pending(pending, received_filename) == pending # 0

\* on_file_processing_complete:
\* `pending_file_ack and received_filename == pending_file_ack`
ack_is_expected(pending, received_filename) ==
    pending # 0 /\ received_filename = pending

\* on_file_processing_complete
OnFileProcessingComplete(received_filename) ==
    /\ CanHandle
    /\ file_processing_complete' =
           IF ack_is_expected(pending_file_ack, received_filename)
           THEN TRUE
           ELSE file_processing_complete
    /\ handled' = [NoEvent EXCEPT !.ev = "file_processing_complete",
                                  !.filename = received_filename]
    /\ UNCHANGED <<current_filters, directory, processed_files, is_monitoring_active,
                   agent_thread, scan_queue, timeout_counter, pending_file_ack,
                   file_send_interval, sio_connected, set_filters_pc, emit_log,
                   scan_sent, stop_received>>
    /\ UNCHANGED server_vars

\* on_file_validation_error: the rejection is logged
OnFileValidationError(filename) ==
    /\ CanHandle
    /\ handled' = [NoEvent EXCEPT !.ev = "file_validation_error",
                                  !.filename = filename]
    /\ UNCHANGED <<current_filters, directory, processed_files, is_monitoring_active,
                   agent_thread, scan_queue, timeout_counter, pending_file_ack,
                   file_processing_complete, file_send_interval, sio_connected,
                   set_filters_pc, emit_log, scan_sent, stop_received>>
    /\ UNCHANGED server_vars

\* on_stop_data_stream
OnStopDataStream ==
    /\ CanHandle
    /\ is_monitoring_active' = monitoring_after_stop
    /\ stop_received' = TRUE
    /\ handled' = [NoEvent EXCEPT !.ev = "stop_data_stream"]
    /\ UNCHANGED <<current_filters, directory, processed_files, agent_thread,
                   scan_queue, timeout_counter, pending_file_ack,
                   file_processing_complete, file_send_interval, sio_connected,
                   set_filters_pc, emit_log, scan_sent>>
    /\ UNCHANGED server_vars

\* on_stop_cv_data_stream
OnStopCvDataStream ==
    /\ CanHandle
    /\ is_monitoring_active' = monitoring_after_stop
    /\ stop_received' = TRUE
    /\ handled' = [NoEvent EXCEPT !.ev = "stop_cv_data_stream"]
    /\ UNCHANGED <<current_filters, directory, processed_files, agent_thread,
                   scan_queue, timeout_counter, pending_file_ack,
                   file_processing_complete, file_send_interval, sio_connected,
                   set_filters_pc, emit_log, scan_sent>>
    /\ UNCHANGED server_vars

\* on_adjust_send_rate
OnAdjustSendRate(requested_interval) ==
    /\ CanHandle
    /\ file_send_interval' = ClampInterval(requested_interval)
    /\ handled' = [NoEvent EXCEPT !.ev = "adjust_send_rate",
                                  !.interval = requested_interval]
    /\ UNCHANGED <<current_filters, directory, processed_files, is_monitoring_active,
                   agent_thread, scan_queue, timeout_counter, pending_file_ack,
                   file_processing_complete, sio_connected, set_filters_pc, emit_log,
                   scan_sent, stop_received>>
    /\ UNCHANGED server_vars

\* the connection to the server is lost
SioDisconnect ==
    /\ sio_connected
    /\ sio_connected' = FALSE
    /\ handled' = NoEvent
    /\ UNCHANGED <<current_filters, directory, processed_files, is_monitoring_active,
                   agent_thread, scan_queue, timeout_counter, pending_file_ack,
                   file_processing_complete, file_send_interval, set_filters_pc,
                   emit_log, scan_sent, stop_received>>
    /\ UNCHANGED server_vars

\* the client reconnects
SioConnect ==
    /\ ~ sio_connected
    /\ sio_connected' = TRUE
    /\ handled' = NoEvent
    /\ UNCHANGED <<current_filters, directory, processed_files, is_monitoring_active,
                   agent_thread, scan_queue, timeout_counter, pending_file_ack,
                   file_processing_complete, file_send_interval, set_filters_pc,
                   emit_log, scan_sent, stop_received>>
    /\ UNCHANGED server_vars

\* ------------------------------------------------------------------ Next
Next ==
    \/ \E u \in Users, interleaved \in BOOLEAN : HandleConnect(u, interleaved)
    \/ \E c \in Sids : HandleConnectRegister(c)
    \/ \E cookie \in {0} \cup ViewerSids : HandleConnectViewer(cookie)
    \/ \E v \in Sids, u \in Users : HandleCheckAgentConnection(v, u)
    \/ \E v \in Sids, u \in Users, analysis_type \in AnalysisTypes :
           HandleRequestHistoricalData(v, u, analysis_type)
    \/ \E c \in Sids : HandleDisconnect(c)
    \/ \E cl \in cleanups : DelayedAgentCleanup(cl)
    \/ \E cl \in cleanups : DelayedAgentCleanupCheck(cl)
    \/ \E cl \in cleanups : DelayedAgentCleanupUnregister(cl)
    \/ \E s \in session_cleanups : CleanupSessionAfterDelay(s)
    \/ \E v \in Sids, u \in Users, e \in ElectrodeChoices : HandleStartAnalysisSession(v, u, e)
    \/ \E v \in Sids, u \in Users, e \in ElectrodeChoices : HandleStartCvAnalysisSession(v, u, e)
    \/ \E v \in Sids, u \in Users, e \in ElectrodeChoices : HandleStartFrequencyMapSession(v, u, e)
    \/ \E v \in Sids : HandleStopAnalysisSession(v)
    \/ \E v \in Sids : HandleStopCvAnalysisSession(v)
    \/ \E v \in Sids : HandleStopFrequencyMapSession(v)
    \/ \E c \in Sids, f \in Files, is_safe \in BOOLEAN, name_matches \in BOOLEAN :
           HandleInstrumentData(c, f, is_safe, name_matches)
    \/ \E c \in Sids, f \in Files, is_safe \in BOOLEAN : HandleCvInstrumentData(c, f, is_safe)
    \/ \E c \in Sids, f \in Files : HandleCvDataFromAgent(c, f)
    \/ \E i \in 1..MaxTasks : TaskAcquire(i)
    \/ \E i \in 1..MaxTasks, outcome \in Outcomes, raised \in BOOLEAN :
           TaskFinish(i, outcome, raised)
    \/ \E i \in 1..MaxTasks, outcome \in Outcomes : TaskReadProgress(i, outcome)
    \/ \E i \in 1..MaxTasks, raised \in BOOLEAN : TaskWriteProgress(i, raised)
    \/ \E i \in 1..MaxTasks, outcome \in Outcomes : TaskReadTrend(i, outcome)
    \/ \E i \in 1..MaxTasks, raised \in BOOLEAN : TaskWriteTrend(i, raised)
    \/ Tick
    \/ \E u \in Users, c \in AgentSids, load \in LoadRatios :
           CheckAndAdjustAgentRate(u, c, load)
    \/ \E analysis_mode \in AnalysisModes : OnSetFilters(analysis_mode)
    \/ OnSetFiltersStop
    \/ \E folder_selected \in BOOLEAN : OnSetFiltersStart(folder_selected)
    \/ MonitorScan
    \/ MonitorNext
    \/ \E readable \in BOOLEAN : SendFileToServer(readable)
    \/ WaitLoop
    \/ WaitEnd
    \/ MarkProcessed
    \/ PollSleep
    \/ \E f \in AgentFiles : FileWritten(f)
    \/ \E f \in AgentFiles : OnFileProcessingComplete(f)
    \/ OnStopDataStream
    \/ OnStopCvDataStream
    \/ \E requested_interval \in RequestedIntervals : OnAdjustSendRate(requested_interval)
    \/ SioDisconnect
    \/ SioConnect

Spec == Init /\ [][Next]_vars

\* ------------------------------------------------------------- scenarios
\* Each scenario takes the handlers and the inputs of one part of the
\* server's behaviour, so that its state space can be explored to the end.
FirstViewer == MaxAgents + 1
ViewersOpened == NextViewerSid - FirstViewer
Idle == \A i \in 1..MaxTasks : tasks[i].pc = "free"

\* the identity registry: agents and viewers of every identity connect, with
\* and without interleaving, join, disconnect and are cleaned up
NextRegistry ==
    \/ \E u \in Users, interleaved \in BOOLEAN : HandleConnect(u, interleaved)
    \/ \E c \in AgentSids : HandleConnectRegister(c)
    \/ HandleConnectViewer(0)
    \/ \E v \in ViewerSids, u \in Users : HandleCheckAgentConnection(v, u)
    \/ \E c \in Sids : HandleDisconnect(c)
    \/ \E cl \in cleanups : DelayedAgentCleanup(cl)
    \/ \E s \in session_cleanups : CleanupSessionAfterDelay(s)

SpecRegistry == Init /\ [][NextRegistry]_vars

\* the file pipeline of one identity: its agent connects, loses the
\* connection and reconnects, one viewer starts a continuous analysis, files
\* are dispatched through the admission gate and their tasks end in every way
NextPipeline ==
    \/ HandleConnect("u1", FALSE)
    \/ ViewersOpened = 0 /\ HandleConnectViewer(0)
    \/ HandleCheckAgentConnection(FirstViewer, "u1")
    \/ \E c \in AgentSids : HandleDisconnect(c)
    \/ \E cl \in cleanups : DelayedAgentCleanup(cl)
    \/ HandleStartAnalysisSession(FirstViewer, "u1", NumElectrodes)
    \/ \E c \in AgentSids, f \in Files, is_safe \in BOOLEAN, name_matches \in BOOLEAN :
           HandleInstrumentData(c, f, is_safe, name_matches)
    \/ \E i \in 1..MaxTasks : TaskAcquire(i)
    \/ \E i \in 1..MaxTasks, outcome \in Outcomes, raised \in BOOLEAN :
           TaskFinish(i, outcome, raised)

SpecPipeline == Init /\ [][NextPipeline]_vars

\* two identities side by side: each has an agent, viewers join either
\* group, the first viewer starts a continuous analysis of u1, and u1's
\* files are processed one at a time
NextIsolation ==
    \/ \E u \in Users : HandleConnect(u, FALSE)
    \/ HandleConnectViewer(0)
    \/ \E v \in ViewerSids, u \in Users : HandleCheckAgentConnection(v, u)
    \/ \E c \in AgentSids : HandleDisconnect(c)
    \/ \E cl \in cleanups : DelayedAgentCleanup(cl)
    \/ HandleStartAnalysisSession(FirstViewer, "u1", NumElectrodes)
    \/ \E c \in AgentSids, f \in Files : Idle /\ HandleInstrumentData(c, f, TRUE, TRUE)
    \/ \E i \in 1..MaxTasks : TaskAcquire(i)
    \/ \E i \in 1..MaxTasks, outcome \in Outcomes : TaskFinish(i, outcome, FALSE)

SpecIsolation == Init /\ [][NextIsolation]_vars


\* flow control: two identities whose agents send files while time passes,
\* under the load of the dispatched tasks and under every load the server's
\* gate can show
NextFlow ==
    \/ \E u \in Users : HandleConnect(u, FALSE)
    \/ ViewersOpened = 0 /\ HandleConnectViewer(0)
    \/ HandleCheckAgentConnection(FirstViewer, "u1")
    \/ HandleStartAnalysisSession(FirstViewer, "u1", NumElectrodes)
    \/ \E c \in AgentSids, f \in Files, is_safe \in BOOLEAN, name_matches \in BOOLEAN :
           HandleInstrumentData(c, f, is_safe, name_matches)
    \/ \E i \in 1..MaxTasks : TaskAcquire(i)
    \/ \E i \in 1..MaxTasks : TaskFinish(i, "success", FALSE)
    \/ \E u \in Users, c \in AgentSids, load \in LoadRatios :
           CheckAndAdjustAgentRate(u, c, load)
    \/ Tick

SpecFlow == Init /\ [][NextFlow]_vars

\* the agent alone: files appear in its folder while the server's messages
\* (filters, acknowledgments, stops) arrive in any order
NextAgent ==
    \/ \E analysis_mode \in AnalysisModes : OnSetFilters(analysis_mode)
    \/ OnSetFiltersStop
    \/ \E folder_selected \in BOOLEAN : OnSetFiltersStart(folder_selected)
    \/ MonitorScan
    \/ MonitorNext
    \/ \E readable \in BOOLEAN : SendFileToServer(readable)
    \/ WaitLoop
    \/ WaitEnd
    \/ MarkProcessed
    \/ PollSleep
    \/ \E f \in AgentFiles : FileWritten(f)
    \/ \E f \in AgentFiles : OnFileProcessingComplete(f)
    \/ OnStopDataStream
    \/ OnStopCvDataStream
    \/ SioDisconnect
    \/ SioConnect

SpecAgent == Init /\ [][NextAgent]_vars

\* the agent's send rate: adjust_send_rate messages with every requested
\* interval arrive while the agent monitors a folder that receives one file
NextAgentRate ==
    \/ OnSetFilters("continuous")
    \/ OnSetFiltersStop
    \/ OnSetFiltersStart(TRUE)
    \/ MonitorScan
    \/ MonitorNext
    \/ SendFileToServer(TRUE)
    \/ WaitLoop
    \/ WaitEnd
    \/ MarkProcessed
    \/ PollSleep
    \/ FileWritten(1)
    \/ OnFileProcessingComplete(1)
    \/ \E requested_interval \in RequestedIntervals : OnAdjustSendRate(requested_interval)

SpecAgentRate == Init /\ [][NextAgentRate]_vars

\* monitoring a running session: the agent of u1 streams files of a
\* continuous, a CV or a frequency map analysis, loses the connection and
\* reconnects; a second viewer joins u1 and asks for the historical data.
\* Every analysis ends with a result, the SWV ones with a warning as well.
SecondViewer == MaxAgents + 2

NextReplay ==
    \/ HandleConnect("u1", FALSE)
    \/ HandleConnectViewer(0)
    \/ HandleCheckAgentConnection(SecondViewer, "u1")
    \/ \E analysis_type \in AnalysisTypes :
           HandleRequestHistoricalData(SecondViewer, "u1", analysis_type)
    \/ \E c \in AgentSids : HandleDisconnect(c)
    \/ HandleStartAnalysisSession(FirstViewer, "u1", NumElectrodes)
    \/ HandleStartCvAnalysisSession(FirstViewer, "u1", NumElectrodes)
    \/ HandleStartFrequencyMapSession(FirstViewer, "u1", NumElectrodes)
    \/ \E c \in AgentSids, f \in Files : Idle /\ HandleInstrumentData(c, f, TRUE, TRUE)
    \/ \E c \in AgentSids, f \in Files : Idle /\ HandleCvInstrumentData(c, f, TRUE)
    \/ \E i \in 1..MaxTasks : TaskAcquire(i)
    \/ \E i \in 1..MaxTasks :
           TaskFinish(i, IF tasks[i].kind = "cv" THEN "success" ELSE "warning", FALSE)

SpecReplay == Init /\ [][NextReplay]_vars

\* viewer sessions: browsers connect, leave and come back with the session
\* of their cookie, start analyses that fill their session, an agent of u1
\* comes and goes, and the scheduled session cleanups run
NextSessions ==
    \/ \E cookie \in {0} \cup ViewerSids : HandleConnectViewer(cookie)
    \/ NextAgentSid = 1 /\ HandleConnect("u1", FALSE)
    \/ \E v \in ViewerSids : HandleCheckAgentConnection(v, "u1")
    \/ \E v \in ViewerSids : HandleStartAnalysisSession(v, "u1", NumElectrodes)
    \/ \E c \in Sids : HandleDisconnect(c)
    \/ \E cl \in cleanups : DelayedAgentCleanup(cl)
    \/ \E s \in session_cleanups : CleanupSessionAfterDelay(s)

SpecSessions == Init /\ [][NextSessions]_vars

\* reconnection against the grace period: agents of both identities connect,
\* disconnect and reconnect, a viewer joins, and each delayed cleanup runs
\* either without interruption or with other handlers between the read of
\* the mapping and the unregistration
NextReconnect ==
    \/ \E u \in Users : HandleConnect(u, FALSE)
    \/ ViewersOpened = 0 /\ HandleConnectViewer(0)
    \/ \E u \in Users : HandleCheckAgentConnection(FirstViewer, u)
    \/ \E c \in AgentSids : HandleDisconnect(c)
    \/ \E cl \in cleanups : DelayedAgentCleanup(cl)
    \/ \E cl \in cleanups : DelayedAgentCleanupCheck(cl)
    \/ \E cl \in cleanups : DelayedAgentCleanupUnregister(cl)

SpecReconnect == Init /\ [][NextReconnect]_vars

\* multi-electrode sessions: a viewer of u1 starts a continuous analysis
\* with SelectedElectrodes electrodes, the agent streams files, each of which
\* is dispatched as one task per electrode, and the tasks end in every way
NextElectrodes ==
    \/ NextAgentSid = 1 /\ HandleConnect("u1", FALSE)
    \/ ViewersOpened = 0 /\ HandleConnectViewer(0)
    \/ HandleStartAnalysisSession(FirstViewer, "u1", SelectedElectrodes)
    \/ \E c \in AgentSids, f \in Files, is_safe \in BOOLEAN, name_matches \in BOOLEAN :
           HandleInstrumentData(c, f, is_safe, name_matches)
    \/ \E i \in 1..MaxTasks : TaskAcquire(i)
    \/ \E i \in 1..MaxTasks, outcome \in Outcomes, raised \in BOOLEAN :
           TaskFinish(i, outcome, raised)

SpecElectrodes == Init /\ [][NextElectrodes]_vars

\* electrode tasks side by side: the gate has ConcurrentSlots slots, a
\* viewer of u1 starts a frequency map with SelectedElectrodes electrodes,
\* the agent sends each file once, and the electrode tasks of a file end
\* either in one step or with other tasks between the read of the progress
\* counter and its update
FileStored(f) ==
    \E s \in Sessions, e \in 1..SelectedElectrodes :
        <<e, f>> \in get_session_data(fallback_data, s, "frequency_map_data", {})

NextProgress ==
    \/ NextAgentSid = 1 /\ HandleConnect("u1", FALSE)
    \/ ViewersOpened = 0 /\ HandleConnectViewer(0)
    \/ HandleStartFrequencyMapSession(FirstViewer, "u1", SelectedElectrodes)
    \/ \E c \in AgentSids, f \in Files :
           Idle /\ ~FileStored(f) /\ HandleInstrumentData(c, f, TRUE, TRUE)
    \/ \E i \in 1..MaxTasks : TaskAcquire(i)
    \/ \E i \in 1..MaxTasks, outcome \in {"success", "error"} :
           TaskFinish(i, outcome, FALSE)
    \/ \E i \in 1..MaxTasks, outcome \in {"success", "error"} :
           TaskReadProgress(i, outcome)
    \/ \E i \in 1..MaxTasks : TaskWriteProgress(i, FALSE)

SpecProgress == InitGate(ConcurrentSlots) /\ [][NextProgress]_vars

\* stopping a session: agents of both identities connect, viewers open
\* connections with or without the cookie of an earlier one, join an
\* identity, start an analysis and send each of the three stop events
NextStop ==
    \/ \E u \in Users : HandleConnect(u, FALSE)
    \/ \E cookie \in {0} \cup ViewerSids : HandleConnectViewer(cookie)
    \/ \E v \in ViewerSids, u \in Users : HandleCheckAgentConnection(v, u)
    \/ \E v \in ViewerSids : HandleStartAnalysisSession(v, "u1", NumElectrodes)
    \/ \E v \in ViewerSids : HandleStopAnalysisSession(v)
    \/ \E v \in ViewerSids : HandleStopCvAnalysisSession(v)
    \/ \E v \in ViewerSids : HandleStopFrequencyMapSession(v)

SpecStop == Init /\ [][NextStop]_vars

\* CV files of two identities: the agents of u1 and u2 connect in either
\* order, a viewer starts a CV analysis for each, and each agent sends CV
\* files with cv_data_from_agent
NextCvAgents ==
    \/ \E u \in Users : agent_user_mapping[u] = NoMap /\ HandleConnect(u, FALSE)
    \/ ViewersOpened = 0 /\ HandleConnectViewer(0)
    \/ \E u \in Users : HandleStartCvAnalysisSession(FirstViewer, u, NumElectrodes)
    \/ \E c \in AgentSids, f \in Files : HandleCvDataFromAgent(c, f)
    \/ \E i \in 1..MaxTasks : TaskAcquire(i)
    \/ \E i \in 1..MaxTasks, outcome \in {"success", "error"} :
           TaskFinish(i, outcome, FALSE)

SpecCvAgents == Init /\ [][NextCvAgents]_vars

\* results side by side: the gate has ConcurrentSlots slots, a viewer of u1
\* starts a continuous analysis with SelectedElectrodes electrodes, and the
\* electrode tasks of a file end either in one step or with other tasks
\* between the read of live_trend_data and its update
NextTrend ==
    \/ NextAgentSid = 1 /\ HandleConnect("u1", FALSE)
    \/ ViewersOpened = 0 /\ HandleConnectViewer(0)
    \/ Idle /\ HandleStartAnalysisSession(FirstViewer, "u1", SelectedElectrodes)
    \/ \E c \in AgentSids, f \in Files :
           Idle /\ HandleInstrumentData(c, f, TRUE, TRUE)
    \/ \E i \in 1..MaxTasks : TaskAcquire(i)
    \/ \E i \in 1..MaxTasks, outcome \in {"success", "error"} :
           TaskFinish(i, outcome, FALSE)
    \/ \E i \in 1..MaxTasks : TaskReadTrend(i, "success")
    \/ \E i \in 1..MaxTasks : TaskWriteTrend(i, FALSE)

SpecTrend == InitGate(ConcurrentSlots) /\ [][NextTrend]_vars

\* the server's flow control and the agent together: the agent of u1 sends
\* files under every load, and each adjust_send_rate the server emits is
\* delivered to the agent before the server takes another step
AdjustInFlight ==
    {m \in sent : /\ m.ev = "adjust_send_rate"
                  /\ file_send_interval # ClampInterval(m.interval)}

NextRateSync ==
    \/ AdjustInFlight = {} /\ NextAgentSid = 1 /\ HandleConnect("u1", FALSE)
    \/ AdjustInFlight = {} /\ ViewersOpened = 0 /\ HandleConnectViewer(0)
    \/ /\ AdjustInFlight = {}
       /\ HandleStartAnalysisSession(FirstViewer, "u1", NumElectrodes)
    \/ /\ AdjustInFlight = {}
       /\ \E f \in Files : HandleInstrumentData(1, f, TRUE, TRUE)
    \/ /\ AdjustInFlight = {}
       /\ \E load \in LoadRatios : CheckAndAdjustAgentRate("u1", 1, load)
    \/ AdjustInFlight = {} /\ \E i \in 1..MaxTasks : TaskAcquire(i)
    \/ AdjustInFlight = {} /\ \E i \in 1..MaxTasks : TaskFinish(i, "success", FALSE)
    \/ AdjustInFlight = {} /\ Tick
    \/ \E m \in AdjustInFlight : OnAdjustSendRate(m.interval)

SpecRateSync == Init /\ [][NextRateSync]_vars

\* the send loop left to itself: the filters are set once, the agent stays
\* connected and is never stopped, every file is readable, the server
\* acknowledges the pending file or stays silent, and files of every accepted
\* name appear in the folder
NextSendAll ==
    \/ agent_thread = "none" /\ emit_log = <<>> /\ OnSetFilters("continuous")
    \/ OnSetFiltersStop
    \/ OnSetFiltersStart(TRUE)
    \/ MonitorScan
    \/ MonitorNext
    \/ SendFileToServer(TRUE)
    \/ WaitLoop
    \/ WaitEnd
    \/ MarkProcessed
    \/ PollSleep
    \/ \E f \in WatchedNames : FileWritten(f)
    \/ pending_file_ack # 0 /\ OnFileProcessingComplete(pending_file_ack)

\* a step of the monitoring thread or of on_set_filters starting it
MonitorStep ==
    \/ OnSetFiltersStop
    \/ OnSetFiltersStart(TRUE)
    \/ MonitorScan
    \/ MonitorNext
    \/ SendFileToServer(TRUE)
    \/ WaitLoop
    \/ WaitEnd
    \/ MarkProcessed
    \/ PollSleep

\* the thread is scheduled as long as it has a step to take
SpecSendAll == Init /\ [][NextSendAll]_vars /\ WF_vars(MonitorStep)

\* the wait for the acknowledgment: the agent sends the files of its folder
\* while the server acknowledges the pending file or another one, rejects
\* the file, stays silent or stops the stream
NextWait ==
    \/ agent_thread = "none" /\ OnSetFilters("continuous")
    \/ OnSetFiltersStop
    \/ OnSetFiltersStart(TRUE)
    \/ MonitorScan
    \/ MonitorNext
    \/ SendFileToServer(TRUE)
    \/ WaitLoop
    \/ WaitEnd
    \/ MarkProcessed
    \/ PollSleep
    \/ \E f \in AgentFiles : FileWritten(f)
    \/ \E f \in AgentFiles : OnFileProcessingComplete(f)
    \/ \E f \in AgentFiles : pending_file_ack = f /\ OnFileValidationError(f)
    \/ OnStopDataStream

\* the sending thread runs: `while` takes its next iteration or ends
SpecWait == Init /\ [][NextWait]_vars /\ WF_vars(WaitLoop) /\ WF_vars(WaitEnd)

\* file data from every channel: the agent of u1 streams files of a running
\* analysis while any connected channel, a viewer's included, emits
\* stream_instrument_data
NextStray ==
    \/ NextAgentSid = 1 /\ HandleConnect("u1", FALSE)
    \/ ViewersOpened = 0 /\ HandleConnectViewer(0)
    \/ HandleStartAnalysisSession(FirstViewer, "u1", NumElectrodes)
    \/ \E c \in Sids, f \in Files : HandleInstrumentData(c, f, TRUE, TRUE)
    \/ \E c \in AgentSids : HandleDisconnect(c)
    \/ \E cl \in cleanups : DelayedAgentCleanup(cl)
    \/ \E i \in 1..MaxTasks : TaskAcquire(i)
    \/ \E i \in 1..MaxTasks : TaskFinish(i, "success", FALSE)
    \/ Tick

SpecStray == Init /\ [][NextStray]_vars

\* tasks that outlive their agent: the agents of two identities connect and
\* disconnect, their grace periods pass, and the files they streamed for a
\* CV analysis are processed meanwhile
NextOutlive ==
    \/ \E u \in Users : HandleConnect(u, FALSE)
    \/ ViewersOpened = 0 /\ HandleConnectViewer(0)
    \/ \E u \in Users : HandleStartCvAnalysisSession(FirstViewer, u, NumElectrodes)
    \/ \E c \in AgentSids, f \in Files : HandleCvInstrumentData(c, f, TRUE)
    \/ \E c \in AgentSids : HandleDisconnect(c)
    \/ \E cl \in cleanups : DelayedAgentCleanup(cl)
    \/ \E i \in 1..MaxTasks : TaskAcquire(i)
    \/ \E i \in 1..MaxTasks, outcome \in {"success", "error"} :
           TaskFinish(i, outcome, FALSE)

SpecOutlive == Init /\ [][NextOutlive]_vars
\* ---------------------------------------------------------------- claims
\* messages of event ev addressed to channel c by the last step
SentTo(ev, c) == {m \in sent : m.ev = ev /\ m.to = c}

\* channel c opened in this step as an agent of identity u
Connects(c, u) ==
    /\ conn[c].kind = "none"
    /\ conn'[c].kind = "agent"
    /\ conn'[c].user = u

\* the registered channel of identity u is in the live-connection set
LiveMapping(u) ==
    /\ agent_user_mapping[u] # NoMap
    /\ agent_user_mapping[u].agent_sid \in rooms

\* the registered channel of identity u has left the live-connection set
StaleMapping(u) ==
    /\ agent_user_mapping[u] # NoMap
    /\ agent_user_mapping[u].agent_sid \notin rooms

\* C1: an agent connecting under an identity whose registered channel is
\* still live is rejected: it is sent connection_rejected and dropped, the
\* registry and the session store stay as they were (no new session), and no
\* session_info goes to the rejected channel.
C1_LiveCollisionRejected ==
    [][\A c \in AgentSids, u \in Users :
          (Connects(c, u) /\ LiveMapping(u)) =>
              /\ Msg("connection_rejected", c, u, 0) \in sent'
              /\ {m \in sent' : m.ev = "session_info" /\ m.to = c} = {}
              /\ c \notin rooms'
              /\ conn'[c].pc = "rejected"
              /\ conn'[c].sess = 0
              /\ agent_user_mapping' = agent_user_mapping
              /\ fallback_data' = fallback_data]_vars

\* a newcomer has just been rejected while the registered channel is live
C1_Witness ==
    \E c \in AgentSids :
        /\ conn[c].pc = "rejected"
        /\ SentTo("connection_rejected", c) # {}
        /\ LiveMapping(conn[c].user)
        /\ agent_user_mapping[conn[c].user].agent_sid # c

\* C2: two live agent channels of one identity are never both accepted
\* (registered, session_info received).
C2_AtMostOneAccepted ==
    \A c1, c2 \in AgentSids :
        (c1 # c2 /\ conn[c1].user = conn[c2].user /\ c1 \in rooms /\ c2 \in rooms)
            => ~(conn[c1].pc = "up" /\ conn[c2].pc = "up")

\* C3: an agent connecting under an identity whose registered channel has
\* left the live-connection set is accepted, and when its handler has
\* registered it the identity resolves to the new channel and to a new
\* session id, which belongs to that channel.
C3_StaleMappingReplaced ==
    [][\A c \in AgentSids, u \in Users :
          /\ (Connects(c, u) /\ StaleMapping(u)) =>
                 /\ conn'[c].pc \in {"checked", "up"}
                 /\ c \in rooms'
                 /\ {m \in sent' : m.ev = "connection_rejected"} = {}
          /\ (conn[c].pc # "up" /\ conn'[c].pc = "up" /\ conn'[c].user = u) =>
                 /\ agent_user_mapping'[u].agent_sid = c
                 /\ agent_user_mapping'[u].session_id = conn'[c].sess
                 /\ agent_user_mapping'[u].session_id # agent_user_mapping[u].session_id
                 /\ get_session_agent_sid(fallback_data', conn'[c].sess) = c
                 /\ Msg("session_info", c, u, 0) \in sent']_vars

\* an agent has just replaced the stale mapping of a channel that closed
\* and whose delayed cleanup is still pending
C3_Witness ==
    \E c, d \in AgentSids :
        /\ c # d
        /\ conn[d].pc = "closed"
        /\ conn[d].user = conn[c].user
        /\ \E cl \in cleanups : cl.sid = d
        /\ conn[c].pc = "up"
        /\ SentTo("session_info", c) # {}
        /\ agent_user_mapping[conn[c].user] = [session_id |-> conn[c].sess, agent_sid |-> c]

\* the result keys a reconnection has to carry over
CarriedResults ==
    {"live_trend_data", "live_analysis_params", "live_peak_detection_warnings",
     "frequency_map_data", "frequency_map_params"}

\* C4: when an agent reconnects while the mapping of its identity still
\* exists (the grace-period cleanup has not run), every accumulated result
\* of the new session equals what the old session held.
C4_ReconnectKeepsResults ==
    [][\A c \in AgentSids :
          (/\ conn[c].pc # "up"
           /\ conn'[c].pc = "up"
           /\ agent_user_mapping[conn'[c].user].session_id # 0) =>
              \A k \in CarriedResults :
                  fallback_data'[conn'[c].sess][k] =
                      fallback_data[agent_user_mapping[conn'[c].user].session_id][k]]_vars

\* an agent has just reconnected, its old channel's cleanup still pending,
\* and the new session holds trend data and warnings of processed files
C4_Witness ==
    \E c, d \in AgentSids :
        /\ c # d
        /\ conn[d].pc = "closed"
        /\ \E cl \in cleanups : cl.sid = d
        /\ conn[c].pc = "up"
        /\ SentTo("session_info", c) # {}
        /\ fallback_data[conn[c].sess].live_trend_data # <<>>
        /\ fallback_data[conn[c].sess].live_trend_data[1] # {}
        /\ fallback_data[conn[c].sess].live_peak_detection_warnings # <<>>
        /\ fallback_data[conn[c].sess].live_peak_detection_warnings[1] # {}
        /\ fallback_data[conn[c].sess].live_trend_data =
               fallback_data[conn[d].sess].live_trend_data

\* the task that ended in the last step was sent on a channel that has
\* closed, and its identity now resolves to another, live channel
EndedAfterReconnect ==
    /\ finished.pc = "done"
    /\ conn[finished.from_sid].pc = "closed"
    /\ finished.resolved # 0
    /\ finished.resolved # finished.from_sid
    /\ finished.resolved \in rooms
    /\ conn[finished.resolved].pc = "up"

\* C5: a file task submitted on channel C1 whose agent has reconnected on
\* C2 before the analysis completed acknowledges on C2, not on C1, and the
\* acknowledgment is not dropped (stated for analyses that succeed).
C5_AckFollowsReconnect ==
    (EndedAfterReconnect /\ finished.outcome \in {"success", "warning"}) =>
        /\ SentTo("file_processing_complete", finished.resolved) # {}
        /\ SentTo("file_processing_complete", finished.from_sid) = {}

\* the identity whose mapping holds the session of the task that just ended
SessionOwners == {u \in Users : /\ finished.session_id # 0
                                /\ agent_user_mapping[u].session_id = finished.session_id}

\* C6: every live_analysis_update goes to a member of the viewer group of
\* the identity that owns the task's session, hence never to a viewer that
\* is registered only under another identity, and none is sent when no
\* identity owns the session.
C6_LiveUpdateOnlyToGroup ==
    \A m \in sent :
        m.ev = "live_analysis_update" =>
            /\ finished.pc = "done"
            /\ \E u \in SessionOwners : m.to \in web_user_mapping[u]

\* a continuous task of one identity has just sent its update to a viewer
\* of that identity while a live viewer of the other identity got nothing
C6_Witness ==
    \E v1, v2 \in ViewerSids, u1, u2 \in Users :
        /\ u1 # u2
        /\ finished.pc = "done"
        /\ u1 \in SessionOwners
        /\ v1 \in web_user_mapping[u1]
        /\ SentTo("live_analysis_update", v1) # {}
        /\ v2 \in rooms
        /\ v2 \in web_user_mapping[u2]
        /\ v2 \notin web_user_mapping[u1]
        /\ {m \in sent : m.to = v2} = {}

\* C7: frequency_map_update, live_cv_update and electrode_validation_error
\* of a file of identity I1 never reach a viewer that is a member of
\* another identity's group only.
C7_ResultsStayInGroup ==
    \A m \in sent :
        m.ev \in {"frequency_map_update", "live_cv_update", "electrode_validation_error"} =>
            ~ /\ m.to \notin web_user_mapping[m.user]
              /\ \E u \in Users \ {m.user} : m.to \in web_user_mapping[u]

Running == {i \in 1..MaxTasks : tasks[i].pc \in {"running", "tracking", "storing"}}

\* C8: never more than MAX_CONCURRENT_FILE_TASKS tasks execute their target
\* function, and the free-slot count stays within 0..MAX_CONCURRENT_FILE_TASKS.
C8_GateBounds ==
    /\ Cardinality(Running) <= MAX_CONCURRENT_FILE_TASKS
    /\ balance >= 0
    /\ balance <= MAX_CONCURRENT_FILE_TASKS

\* more tasks than slots: every slot is taken and a task waits
C8_Witness ==
    /\ balance = 0
    /\ Cardinality(Running) = MAX_CONCURRENT_FILE_TASKS
    /\ \E i \in 1..MaxTasks : tasks[i].pc = "queued"

\* C9: a task that ends, by returning or by raising, gives its slot back:
\* the free slots are those no executing task holds, and with no task
\* executing all MAX_CONCURRENT_FILE_TASKS slots are free.
C9_SlotsReturned ==
    /\ finished.pc = "done" =>
           balance = MAX_CONCURRENT_FILE_TASKS - Cardinality(Running)
    /\ Running = {} => balance = MAX_CONCURRENT_FILE_TASKS

\* the last task has just ended by raising and every slot is free
C9_Witness ==
    /\ finished.pc = "done"
    /\ finished.raised
    /\ Idle
    /\ balance = MAX_CONCURRENT_FILE_TASKS

\* C10: a file task whose agent is still connected and registered when the
\* task ends acknowledges with file_processing_complete on that channel,
\* whatever the outcome of the analysis.
C10_EveryTaskAcknowledged ==
    (/\ finished.pc = "done"
     /\ finished.from_sid \in rooms
     /\ finished.resolved = finished.from_sid) =>
        SentTo("file_processing_complete", finished.from_sid) # {}

\* a delayed cleanup of channel d, started by d's disconnect, is pending
CleanupPending(d) == \E cl \in cleanups : cl.sid = d

\* C14: an agent disconnect leaves the identity's mapping as it is (it stays
\* resolvable during the grace period), and a delayed cleanup that runs
\* removes the mapping of its identity only if that mapping still names the
\* disconnected channel: after a re-registration under the same identity it
\* changes no mapping at all.
C14_CleanupOnlyOfDisconnectedChannel ==
    [][/\ \A c \in AgentSids :
            (conn[c].pc = "up" /\ conn'[c].pc = "closed")
                => agent_user_mapping' = agent_user_mapping
       /\ \A cl \in cleanups :
            (cl \notin cleanups')
                => agent_user_mapping' =
                       IF agent_user_mapping[cl.user].agent_sid = cl.sid
                       THEN [agent_user_mapping EXCEPT ![cl.user] = NoMap]
                       ELSE agent_user_mapping]_vars

\* an agent re-registered under the identity of a disconnected channel whose
\* cleanup is still to run
C14_Witness ==
    \E d \in AgentSids, c \in AgentSids, u \in Users :
        /\ d # c
        /\ conn[d].pc = "closed" /\ conn[d].user = u
        /\ CleanupPending(d)
        /\ conn[c].pc = "up"
        /\ agent_user_mapping[u].agent_sid = c


\* the step rejected a file that the registered agent on channel c sent
FileRejected(c) ==
    \E m \in sent' : m.ev = "file_validation_error" /\ m.to = c /\ m.user # "-"

\* C15: when a file from a registered agent fails the safety validation,
\* everything the server emits goes to the sending channel, no task is
\* dispatched, no admission slot is taken, the identity mapping, the viewer
\* groups and all session data stay as they were, and the sending channel is
\* still connected and registered.
C15_RejectedFileChangesNothing ==
    [][\A c \in AgentSids :
          FileRejected(c) =>
              /\ \A m \in sent' : m.to = c
              /\ tasks' = tasks
              /\ balance' = balance
              /\ agent_user_mapping' = agent_user_mapping
              /\ web_user_mapping' = web_user_mapping
              /\ web_user_keys' = web_user_keys
              /\ fallback_data' = fallback_data
              /\ c \in rooms'
              /\ get_user_id_by_agent_sid(agent_user_mapping', c) # "-"]_vars

\* a file was rejected although its agent's session has analysis parameters
\* and a task entry is free, so that a valid file would have been dispatched
C15_Witness ==
    \E m \in sent :
        /\ m.ev = "file_validation_error"
        /\ m.user # "-"
        /\ get_session_data(fallback_data, agent_user_mapping[m.user].session_id,
                            "live_analysis_params", EmptyParams) # EmptyParams
        /\ FreeSlots(tasks) # {}

\* the adjust_send_rate messages of the last step
RateMsgs == {m \in sent : m.ev = "adjust_send_rate"}

\* C16: the flow controller instructs the slow interval only on a sampled
\* load above 80%, the normal interval only on a sampled load below 30%, and
\* emits nothing on a load from 30% to 80%, both ends included; it emits only
\* in a step that sampled the load.
C16_RateFollowsLoad ==
    /\ RateMsgs # {} => flow_check # NoCheck
    /\ \A m \in RateMsgs :
          /\ m.interval = RATE_SLOW => flow_check.load > LOAD_THRESHOLD_HIGH
          /\ m.interval = RATE_NORMAL => flow_check.load < LOAD_THRESHOLD_LOW
    /\ (/\ flow_check # NoCheck
        /\ flow_check.load >= LOAD_THRESHOLD_LOW
        /\ flow_check.load <= LOAD_THRESHOLD_HIGH) => RateMsgs = {}

\* a file arrived at a load of exactly 80% for an identity at the normal
\* interval and not adjusted for two seconds, and nothing was emitted
C16_Witness ==
    /\ flow_check # NoCheck
    /\ flow_check.load = LOAD_THRESHOLD_HIGH
    /\ flow_check.since_msg >= RATE_CHECK_INTERVAL
    /\ agent_rate_tracking[flow_check.user].current_interval = RATE_NORMAL
    /\ agent_rate_tracking[flow_check.user].since_adjust >= RATE_CHECK_INTERVAL
    /\ RateMsgs = {}

\* C17: an adjust_send_rate message for an identity is emitted only when at
\* least RATE_CHECK_INTERVAL seconds have passed since the last one emitted
\* for that identity.
C17_AdjustmentsSpaced ==
    \A m \in RateMsgs :
        /\ flow_check.user = m.user
        /\ flow_check.since_msg >= RATE_CHECK_INTERVAL

\* the identity was slowed down earlier and is now sent the normal interval:
\* its second message or a later one
C17_Witness ==
    \E m \in RateMsgs : m.interval = RATE_NORMAL

\* C18: every adjust_send_rate message carries RATE_SLOW or RATE_NORMAL, a
\* positive interval, whatever files the agents sent.
C18_IntervalIsSlowOrNormal ==
    \A m \in RateMsgs :
        /\ m.interval \in {RATE_SLOW, RATE_NORMAL}
        /\ m.interval > 0

\* the slow interval was instructed in the step that rejected the agent's file
C18_Witness ==
    \E m \in RateMsgs :
        /\ m.interval = RATE_SLOW
        /\ \E e \in sent : e.ev = "file_validation_error" /\ e.to = m.to

\* the files of emit_log whose wait has not ended
Outstanding == {i \in DOMAIN emit_log : emit_log[i].ended = "-"}

\* the step emits a file
EmitsFile == agent_thread = "send" /\ agent_thread' = "wait"

\* the step ends the wait for the emitted file
EndsWait == agent_thread = "wait" /\ agent_thread' # "wait"

\* C11: the agent has at most one outstanding file: pending_file_ack names a
\* file only while the monitor waits for that file, a file is emitted only
\* when no wait is open and pending_file_ack is None, and the end of a wait
\* (by acknowledgment, by timeout or by a stop) sets pending_file_ack to None.
C11_OneOutstandingFile ==
    /\ [](/\ Cardinality(Outstanding) <= 1
          /\ pending_file_ack # 0 =>
                 /\ agent_thread = "wait"
                 /\ pending_file_ack = Head(scan_queue))
    /\ [][/\ EmitsFile => (pending_file_ack = 0 /\ Outstanding = {})
          /\ EndsWait => pending_file_ack' = 0]_vars

\* a second file is outstanding after the wait for the first one timed out
C11_Witness ==
    /\ Len(emit_log) >= 2
    /\ emit_log[1].ended = "timeout"
    /\ pending_file_ack # 0
    /\ pending_file_ack # emit_log[1].file

\* the entries of emit_log whose wait ended at the deadline
TimedOut == {i \in DOMAIN emit_log : emit_log[i].ended = "timeout"}

\* C12: when the wait for a file ends at the deadline, with the agent not
\* stopped, the monitor goes on with the rest of the scan and marks the file
\* processed, and the file is not emitted again before the next set_filters.
C12_TimedOutFileSentOnce ==
    /\ [](\A i \in TimedOut :
             /\ \A j \in DOMAIN emit_log : j > i => emit_log[j].file # emit_log[i].file
             /\ \/ emit_log[i].file \in processed_files
                \/ agent_thread = "mark" /\ Head(scan_queue) = emit_log[i].file)
    /\ [][/\ (EndsWait /\ WaitOutcome = "timeout") =>
                 /\ agent_thread' = "mark"
                 /\ scan_queue' = scan_queue
          /\ (agent_thread = "mark" /\ agent_thread' # "mark") =>
                 /\ Head(scan_queue) \in processed_files'
                 /\ scan_queue' = Tail(scan_queue)
                 /\ agent_thread' = "for"]_vars

\* the only file emitted timed out, and a later scan of the folder, which
\* still holds the file, found nothing to send
C12_Witness ==
    /\ Len(emit_log) = 1
    /\ emit_log[1].ended = "timeout"
    /\ emit_log[1].file \in directory
    /\ agent_thread = "poll"
    /\ scan_sent.files = <<>>
    /\ is_monitoring_active
    /\ sio_connected
    /\ ~ stop_received

\* file f goes before file g: lower number, or the same number and the
\* lower name
GoesBefore(f, g) ==
    \/ FileNumber(f) < FileNumber(g)
    \/ FileNumber(f) = FileNumber(g) /\ f < g

\* C13: in a scan made in continuous mode the files are emitted in ascending
\* order of their number, and by name within one number: every emitted file
\* goes before every file emitted after it and before every file of the
\* scan still to send, and a file is emitted only when the wait for the one
\* before it has ended.
C13_ScanSentInNumberOrder ==
    /\ [](scan_sent.analysis_mode = "continuous" =>
             /\ \A i, j \in DOMAIN scan_sent.files :
                    i < j => GoesBefore(scan_sent.files[i], scan_sent.files[j])
             /\ \A i \in DOMAIN scan_sent.files, k \in DOMAIN scan_queue :
                    \/ scan_queue[k] = scan_sent.files[i]
                    \/ GoesBefore(scan_sent.files[i], scan_queue[k]))
    /\ [][(EmitsFile /\ scan_sent.analysis_mode = "continuous") =>
              (pending_file_ack = 0 /\ Outstanding = {})]_vars

\* one scan in continuous mode found the names 1, 2 and 3 and has sent 1 and
\* 3, which carry the number 1, before 2, which carries the number 2
C13_Witness ==
    /\ scan_sent.analysis_mode = "continuous"
    /\ scan_sent.files = <<1, 3, 2>>

\* C19: after the agent has handled an adjust_send_rate message, its
\* file_send_interval lies between 0.05 s and 1.0 s: a requested interval
\* below 0.05 s gives 0.05 s, one above 1.0 s gives 1.0 s, and one inside the
\* range is taken as it is.
C19_IntervalClamped ==
    handled.ev = "adjust_send_rate" =>
        /\ file_send_interval >= MIN_SEND_INTERVAL
        /\ file_send_interval <= MAX_SEND_INTERVAL
        /\ handled.interval < MIN_SEND_INTERVAL => file_send_interval = MIN_SEND_INTERVAL
        /\ handled.interval > MAX_SEND_INTERVAL => file_send_interval = MAX_SEND_INTERVAL
        /\ (/\ handled.interval >= MIN_SEND_INTERVAL
            /\ handled.interval <= MAX_SEND_INTERVAL) => file_send_interval = handled.interval

\* the agent, waiting for an acknowledgment, handled a request for 5 s and
\* took 1.0 s
C19_Witness ==
    /\ handled.ev = "adjust_send_rate"
    /\ handled.interval > MAX_SEND_INTERVAL
    /\ file_send_interval = MAX_SEND_INTERVAL
    /\ agent_thread = "wait"

\* the files emitted after a stop message and before the next set_filters
EmittedAfterStop == {i \in DOMAIN emit_log : emit_log[i].after_stop}

\* the step handles a stop message
HandlesStop == handled'.ev \in {"stop_data_stream", "stop_cv_data_stream"}

\* a stop message that arrives after a stop message changes nothing
StopIsIdempotent ==
    (HandlesStop /\ stop_received) =>
        UNCHANGED <<current_filters, directory, processed_files, is_monitoring_active,
                    agent_thread, scan_queue, timeout_counter, pending_file_ack,
                    file_processing_complete, file_send_interval, sio_connected,
                    set_filters_pc, emit_log, scan_sent, stop_received>>

\* C20: after a stop message (stop_data_stream or stop_cv_data_stream) and
\* until the next set_filters, the monitor begins no further send: the flag
\* is off, no file passes the check between files, and at most one file is
\* still emitted, the one that had passed that check when the stop arrived;
\* a second stop message leaves the agent as the first one left it.
C20_NoSendBeginsAfterStop ==
    /\ [](stop_received =>
             /\ ~ is_monitoring_active
             /\ Cardinality(EmittedAfterStop) <= 1)
    /\ [][/\ (agent_thread = "for" /\ agent_thread' = "send") => ~ stop_received
          /\ StopIsIdempotent]_vars

\* a stop arrived, one file that had passed the check was still emitted, and
\* the monitor has ended with files of the folder unsent
C20_Witness ==
    /\ stop_received
    /\ Cardinality(EmittedAfterStop) = 1
    /\ agent_thread = "none"
    /\ new_matching_files # {}

\* C20 as stated: after a stop message the agent emits no file until the
\* next set_filters, and a second stop message changes nothing
C20_NoFileAfterStop ==
    /\ [](EmittedAfterStop = {})
    /\ [][StopIsIdempotent]_vars

\* the monitor thread leaves its send loop in this step without having
\* finished the scan
LoopAborted ==
    /\ agent_thread \in {"for", "send", "wait"}
    /\ agent_thread' = "none"

\* the send of the file at the head of the scan returns True in this step
SendReturnsSuccess ==
    /\ agent_thread = "wait"
    /\ ~ StillWaiting
    /\ WaitOutcome \in {"ack", "timeout"}

\* C21: when the send loop is aborted (by a stop, by a send that fails
\* because the channel is not connected or the file cannot be read), no
\* file is added to processed_files and none of the files still to send is
\* in it; a file enters processed_files only in the step after its send
\* returned success (acknowledged or timed out), and nothing else changes
\* processed_files but the reset of set_filters.
C21_AbortMarksNothing ==
    /\ [](\A i \in 1..Len(scan_queue) : scan_queue[i] \notin processed_files)
    /\ [][/\ LoopAborted =>
               /\ processed_files' = processed_files
               /\ \A i \in 1..Len(scan_queue) : scan_queue[i] \notin processed_files'
          /\ (agent_thread # "mark" /\ agent_thread' = "mark") => SendReturnsSuccess
          /\ processed_files' # processed_files =>
               \/ /\ agent_thread = "mark"
                  /\ processed_files' = processed_files \cup {Head(scan_queue)}
               \/ /\ handled'.ev = "set_filters"
                  /\ processed_files' = {}]_vars

\* one file of the scan was sent and marked, the wait for the next one was
\* interrupted by a stop, and the files that were not sent are unmarked
C21_Witness ==
    /\ agent_thread = "none"
    /\ ~ is_monitoring_active
    /\ stop_received
    /\ Len(emit_log) = 2
    /\ emit_log[1].ended \in {"ack", "timeout"}
    /\ emit_log[2].ended = "stop"
    /\ processed_files = {emit_log[1].file}
    /\ Cardinality(directory \ processed_files) >= 2

\* the session the mapping of identity u names, 0 when u has no mapping
CurrentSession(u) == agent_user_mapping[u].session_id

\* successful historical_data_response messages of the last step
HistoricalReplies == {m \in sent : m.ev = "historical_data_response_success"}

\* every result the session store holds for session s: the trend data of
\* the continuous and CV analyses and the frequency map data
StoredResults(s) ==
    get_session_data(fallback_data, s, "live_trend_data", {})
        \cup {<<"frequency_map", x[1], x[2]>> :
                 x \in get_session_data(fallback_data, s, "frequency_map_data", {})}

\* C22: the reply to a viewer's request for the historical data of identity
\* I holds exactly the results stored in the session I's mapping names at
\* that moment.  (Stated for the replies of type swv, which carry the whole
\* stored trend data.)
C22_ReplaysEveryResult ==
    \A m \in HistoricalReplies :
        m.data[1].analysis_type = "swv" =>
            m.data[1].trend_data = StoredResults(CurrentSession(m.user))

\* replies of the last step to a check_agent_connection, the viewer's join
JoinReplies ==
    {m \in sent : m.ev \in {"agent_connection_status_connected",
                            "agent_connection_status_not_found"}}

\* C23: a viewer that joins identity I, whether or not an agent of I is
\* connected, is a member of I's viewer group from then on, so that the
\* notifications and updates of I reach it when the agent connects later.
C23_EarlyJoinIsMember ==
    \A m \in JoinReplies : m.to \in web_user_mapping[m.user]

\* the task that ended in the last step was sent on a channel that has
\* closed, and the grace period of that channel has passed without a
\* reconnect: its identity has no mapping any more
EndedAfterGracePeriod ==
    /\ finished.pc = "done"
    /\ conn[finished.from_sid].pc = "closed"
    /\ ~ CleanupPending(finished.from_sid)
    /\ agent_user_mapping[SrcUser(finished)] = NoMap

\* C24: the disconnect of an agent cancels no task: it leaves the tasks that
\* run or wait at the gate and the free slots as they are, a task of a
\* closed channel gives its slot back when it ends, and when the grace
\* period has passed without a reconnect the acknowledgment of such a task
\* reaches no live channel.
C24_TasksOutliveTheirAgent ==
    /\ [](finished.pc = "done" =>
              balance = MAX_CONCURRENT_FILE_TASKS - Cardinality(Running))
    /\ [](EndedAfterGracePeriod =>
              \A m \in sent : m.ev = "file_processing_complete" => m.to \notin rooms)
    /\ [][\A c \in AgentSids :
              (conn[c].pc = "up" /\ conn'[c].pc = "closed") =>
                  /\ tasks' = tasks
                  /\ balance' = balance]_vars

\* the keys of a session that hold its data
SessionDataKeys ==
    {"live_analysis_params", "live_trend_data", "live_peak_detection_warnings",
     "frequency_map_data", "frequency_map_params"}

\* session s holds data
HoldsData(s) == \E k \in SessionDataKeys : fallback_data[s][k] # <<>>

ResultOf(t) == <<"raw_peaks", t.electrode, t.file>>

\* C26: a continuous task submitted under the old session of identity I
\* whose analysis succeeds after I's agent has reconnected leaves its result
\* in the trend data of the session I resolves to now, and its
\* live_analysis_update goes to every member of I's viewer group.
C26_ResultFollowsReconnect ==
    (/\ EndedAfterReconnect
     /\ finished.kind = "swv"
     /\ finished.outcome \in {"success", "warning"}) =>
        /\ ResultOf(finished) \in
               get_session_data(fallback_data, CurrentSession(SrcUser(finished)),
                                "live_trend_data", {})
        /\ \A v \in web_user_mapping[SrcUser(finished)] :
               SentTo("live_analysis_update", v) # {}

\* tasks of file f of session s that run or wait for a slot
PendingOf(s, f) ==
    {i \in 1..MaxTasks : /\ tasks[i].pc \in {"queued", "running", "tracking", "storing"}
                         /\ tasks[i].session_id = s
                         /\ tasks[i].file = f}

\* C27: in continuous mode with more than one selected electrode, a
\* file_processing_complete for a file is emitted only when no electrode
\* task of that file still runs or waits for a slot.
C27_AckAfterAllElectrodes ==
    (finished.pc = "done" /\ finished.kind = "swv" /\ finished.total > 1) =>
        \A m \in sent :
            m.ev = "file_processing_complete" =>
                PendingOf(finished.session_id, m.file) = {}

\* the agent channels of identity u that are connected
ConnectedAgents(u) ==
    {c \in AgentSids \cap rooms : conn[c].kind = "agent" /\ conn[c].user = u}

\* C28: a grace-period cleanup, however it interleaves with a
\* re-registration of the identity, never removes a mapping that points to
\* a connected channel and never sends agent_status 'disconnected' for an
\* identity whose agent is connected.
C28_CleanupSparesReconnectedAgent ==
    [][\A u \in Users :
          /\ (agent_user_mapping[u] # NoMap /\ agent_user_mapping'[u] = NoMap)
                 => agent_user_mapping[u].agent_sid \notin rooms
          /\ (\E m \in sent' : m.ev = "agent_status_disconnected" /\ m.user = u)
                 => ConnectedAgents(u) = {}]_vars

\* C29: in frequency-map mode with several electrodes, however the electrode
\* tasks of a file interleave their read and update of the progress counter,
\* the task that finishes last sends the file_processing_complete of the
\* file, and a task that finishes before another sends none.
C29_OneAckAfterLastElectrode ==
    (finished.pc = "done" /\ finished.kind = "fmap" /\ finished.total > 1) =>
        LET acks == {m \in sent : /\ m.ev = "file_processing_complete"
                                  /\ m.file = finished.file}
        IN IF PendingOf(finished.session_id, finished.file) = {}
           THEN Cardinality(acks) = 1
           ELSE acks = {}

\* viewer v monitors identity u, whose agent is connected
MonitorsConnectedAgent(v, u) ==
    /\ v \in web_user_mapping[u]
    /\ agent_user_mapping[u] # NoMap
    /\ agent_user_mapping[u].agent_sid \in rooms

\* C30: when a viewer monitoring identity I stops a session of any of the
\* three kinds while I's agent is connected, the stop message is emitted to
\* the agent channel registered for I and to no other channel.
C30_StopReachesOwnAgent ==
    [][\A v \in ViewerSids, u \in Users :
          MonitorsConnectedAgent(v, u) =>
              /\ (HandleStopAnalysisSession(v) \/ HandleStopFrequencyMapSession(v))
                    => sent' = {Msg("stop_data_stream", agent_user_mapping[u].agent_sid,
                                    "-", 0)}
              /\ HandleStopCvAnalysisSession(v)
                    => sent' = {Msg("stop_cv_data_stream",
                                    agent_user_mapping[u].agent_sid, "-", 0)}]_vars

\* the session of identity u holds analysis parameters and u's agent is on
\* channel c
CvSessionOf(u, c) ==
    /\ agent_user_mapping[u] # NoMap
    /\ agent_user_mapping[u].agent_sid = c
    /\ c \in rooms
    /\ get_session_data(fallback_data, agent_user_mapping[u].session_id,
                        "live_analysis_params", EmptyParams) # EmptyParams

\* C31: with the agents of two identities connected, a CV file an agent
\* sends with cv_data_from_agent is dispatched to a task of its own
\* identity's session, whichever agent connected last, and the task's
\* acknowledgment goes to the channel the file came from.
C31_CvFileStaysWithItsIdentity ==
    [][/\ \A u \in Users, c \in AgentSids, f \in Files :
            (/\ CvSessionOf(u, c)
             /\ FreeSlots(tasks) # {}
             /\ HandleCvDataFromAgent(c, f))
                => \E i \in 1..MaxTasks :
                       /\ tasks[i].pc = "free"
                       /\ tasks'[i].pc = "queued"
                       /\ tasks'[i].file = f
                       /\ tasks'[i].session_id = agent_user_mapping[u].session_id
       /\ (finished'.pc = "done" /\ finished'.kind = "cv" /\ finished'.from_sid \in rooms)
            => finished'.acked = finished'.from_sid]_vars

\* the accumulated results of session s
TrendOf(fd, s) == get_session_data(fd, s, "live_trend_data", {})

\* C32: when file tasks of one session run side by side, the end of a task
\* adds the task's peak to the session's accumulated results, if the
\* analysis succeeded, and removes no peak another task has stored.
C32_NoResultLost ==
    [][finished'.pc = "done" =>
          /\ \A s \in Sessions : TrendOf(fallback_data, s) \subseteq TrendOf(fallback_data', s)
          /\ (finished'.kind = "swv" /\ finished'.outcome = "success")
                => <<"raw_peaks", finished'.electrode, finished'.file>>
                       \in TrendOf(fallback_data', finished'.session_id)]_vars

\* C33: the agent's file_processing_complete flag is raised only by an
\* acknowledgment whose filename is the pending one: an acknowledgment for
\* another file, or one that arrives while no file is pending, leaves the
\* flag and the pending file as they are.
C33_OnlyMatchingAckCompletes ==
    [][/\ (file_processing_complete' /\ ~file_processing_complete)
            => /\ handled'.ev = "file_processing_complete"
               /\ pending_file_ack # 0
               /\ handled'.filename = pending_file_ack
       /\ (/\ handled'.ev = "file_processing_complete"
           /\ handled'.filename # pending_file_ack)
            => /\ file_processing_complete' = file_processing_complete
               /\ pending_file_ack' = pending_file_ack]_vars

\* an acknowledgment for a file sent earlier has arrived while another file
\* is pending, and the wait for that file goes on
C33_Witness ==
    /\ handled.ev = "file_processing_complete"
    /\ pending_file_ack # 0
    /\ handled.filename # pending_file_ack
    /\ handled.filename \in processed_files
    /\ ~file_processing_complete

\* the agent_status 'disconnected' messages about an identity among a
\* step's emissions (the status a connecting viewer is greeted with names no
\* identity)
Disconnected(msgs) ==
    {m \in msgs : m.ev = "agent_status_disconnected" /\ m.user \in Users}

\* the identity of cleanup cl is registered on another channel: the agent
\* has reconnected
Reconnected(cl) ==
    /\ agent_user_mapping[cl.user] # NoMap
    /\ agent_user_mapping[cl.user].agent_sid # cl.sid

\* the identity of cleanup cl is still registered on the disconnected channel
NotReconnected(cl) ==
    /\ agent_user_mapping[cl.user] # NoMap
    /\ agent_user_mapping[cl.user].agent_sid = cl.sid

\* C34: a grace-period cleanup that begins after the agent has reconnected
\* under the same identity sends no agent_status 'disconnected' and ends; a
\* cleanup of an agent that has not reconnected sends one agent_status
\* 'disconnected' to each viewer registered for the identity and to nobody
\* else, and ends; no other step sends agent_status 'disconnected'.
C34_DisconnectNoticeOnlyWithoutReconnect ==
    [][/\ \A cl \in cleanups :
            /\ (/\ cl.pc = "sleeping"
                /\ Reconnected(cl)
                /\ DelayedAgentCleanup(cl) \/ DelayedAgentCleanupCheck(cl))
                 => Disconnected(sent') = {} /\ cleanups' = cleanups \ {cl}
            /\ (/\ NotReconnected(cl)
                /\ DelayedAgentCleanup(cl) \/ DelayedAgentCleanupUnregister(cl))
                 => /\ Disconnected(sent') =
                           {Msg("agent_status_disconnected", v, cl.user, 0) :
                                v \in web_user_mapping[cl.user]}
                    /\ cleanups' = cleanups \ {cl}
       /\ Disconnected(sent') # {}
            => \E cl \in cleanups :
                   /\ cl \notin cleanups'
                   /\ \A m \in Disconnected(sent') : m.user = cl.user]_vars

\* a cleanup has just told the viewer of an identity, who is no viewer of
\* the other identity, that the agent is gone
C34_Witness ==
    \E u \in Users :
        /\ Msg("agent_status_disconnected", FirstViewer, u, 0) \in sent
        /\ agent_user_mapping[u] = NoMap
        /\ \A o \in Users \ {u} : FirstViewer \notin web_user_mapping[o]

\* C35: whenever no adjust_send_rate is on its way to the agent, the
\* interval the server tracks for the agent's identity is the agent's
\* file_send_interval, from the agent's first file on.
C35_TrackedIntervalIsAgentInterval ==
    (agent_rate_tracking["u1"] # NoTrack /\ AdjustInFlight = {}) =>
        agent_rate_tracking["u1"].current_interval = file_send_interval

\* the file was emitted to the server since the filters were set
WasSent(f) == \E k \in 1..Len(emit_log) : emit_log[k].file = f

\* C36: while the agent stays connected and is not stopped, every file in
\* the watched folder that passes file_matches_filters is eventually sent.
C36_EveryMatchingFileIsSent ==
    \A f \in WatchedNames :
        (f \in directory /\ agent_thread # "none") ~> WasSent(f)

\* C37: after a viewer channel disconnects it is a member of no identity's
\* viewer group, also when it had joined more than one identity, and the
\* disconnect changes no agent mapping and cancels no task.
C37_DisconnectedViewerInNoGroup ==
    [][\A v \in ViewerSids :
          (conn[v].kind = "viewer" /\ HandleDisconnect(v)) =>
              /\ \A u \in Users : v \notin web_user_mapping'[u]
              /\ agent_user_mapping' = agent_user_mapping
              /\ tasks' = tasks]_vars

\* C38: the agent's wait after sending a file always terminates, whatever
\* the server does with the file: the thread leaves the wait loop and no
\* file is pending any more.
C38_WaitAlwaysEnds ==
    (agent_thread = "wait") ~> (agent_thread # "wait" /\ pending_file_ack = 0)

\* a wait has ended on the deadline: the server sent no acknowledgment for
\* the file
C38_Witness ==
    /\ agent_thread = "mark"
    /\ pending_file_ack = 0
    /\ emit_log # <<>>
    /\ emit_log[Len(emit_log)].ended = "timeout"
    /\ timeout_counter = max_wait_time

\* the channel is the registered agent channel of no identity
Unregistered(c) ==
    \A u \in Users :
        agent_user_mapping[u] = NoMap \/ agent_user_mapping[u].agent_sid # c

====
